---------------------------- MODULE Spec2Model ----------------------------
(***************************************************************************)
(* Model of the rhythm engine of src/components/RhythmEngine.tsx: the      *)
(* look-ahead scheduler, the expected-hit queue, tap judgment and the      *)
(* session aggregator.                                                     *)
(*                                                                         *)
(* Units.  Every time is an integer number of milliseconds of the audio    *)
(* clock (the code holds seconds as floats and multiplies by 1000 where it *)
(* compares with the scoring windows).  A beat position is an integer      *)
(* number of quarter beats (BEAT_UNIT per beat), so beat 1.5 is 6.         *)
(* totalScore is held in tenths (the combo bonus is a multiple of 0.1).    *)
(* averageAccuracy is an exact fraction [num, den] in lowest terms.        *)
(***************************************************************************)
EXTENDS Integers, Sequences, FiniteSets, TLC

VARIABLES
  gameState,            \* useState<GameState>
  gameConfig,           \* useState<GameConfig | null>
  stats,                \* useState<GameStats>
  lastHit,              \* useState<ScoreEntry | null> (score and label)
  audio,                \* audioContext: "none" | "running" | "suspended"
  clock,                \* audioContext.currentTime, ms
  nextNoteTime,         \* useRef
  nextMetronomeTime,    \* useRef
  currentBeatInPattern, \* useRef: index into the pattern, from 0
  timerID,              \* useRef: the pending scheduler timeout, as the clock
                        \* time it is due; 0 when none is pending
  gameStartTime,        \* useRef
  expectedHits,         \* useRef: the queue
  hitHistory,           \* useRef: the session history
  loopStartTime,        \* useRef: audioStartTime of the session
  pendingStarts,        \* startGame calls waiting in "await initAudio()"
  startTimers,          \* the pending 1000 ms callbacks of startGame (due times)
  resumePending,        \* the effect's audioContext.resume() promise, still active
  scheduled,            \* number of scheduleNote calls since the start callback
  starts,               \* number of startGame calls made (exploration bound)
  taps,                 \* number of handleTap calls made (exploration bound)
  judgedTaps,           \* handleTap calls that passed the count-in check, this session
  lastTap,              \* what the last handleTap call saw and decided
  analysis,             \* the AnalysisStats that endGame last handed to
                        \* getAICommentary
  highScores,           \* localStorage 'rhythmPulseScores': (level id,
                        \* difficulty) -> [score, accuracy]
  pendingWakes          \* number of scheduler timeouts set by setTimeout that
                        \* have neither fired nor been cleared

vars == <<gameState, gameConfig, stats, lastHit, audio, clock, nextNoteTime,
          nextMetronomeTime, currentBeatInPattern, timerID, gameStartTime,
          expectedHits, hitHistory, loopStartTime, pendingStarts, startTimers,
          resumePending, scheduled, starts, taps, judgedTaps, lastTap,
          analysis, highScores, pendingWakes>>

---------------------------------------------------------------------------
(* Program constants *)

LOOKAHEAD == 25
\* A horizon no longer than the longest gap between two wakes
ShortHorizon == LOOKAHEAD + LOOKAHEAD
SCHEDULE_AHEAD_TIME == 100
GAME_DURATION == 30000
RETENTION == 500
START_DELAY == 1000
AUDIO_START_OFFSET == 100
COUNT_IN_BEATS == 8
BEAT_UNIT == 4

Difficulties == {"EASY", "MEDIUM", "HARD"}

SCORING_WINDOWS(difficulty) ==
  CASE difficulty = "EASY"   -> <<40, 70, 130, 200>>
    [] difficulty = "MEDIUM" -> <<25, 50, 100, 150>>
    [] difficulty = "HARD"   -> <<15, 30, 60, 100>>

TapHands == {"left", "right"}

---------------------------------------------------------------------------
(* Bounds of the exploration *)

MaxTaps == 2
MaxStarts == 1
MaxClock == 4700
MaxWakeDelay == 75
MaxSchedClock == 5800
MaxFineClock == 4899
MaxComboTaps == 11
MaxComboClock == 7900
MaxEndTaps == 2
MaxEndClock == 34400
MaxSessions == 2
MaxInterruptClock == 2600
MaxRestartClock == 35500
MaxHistory == 5
MaxScoreClock == 68700
MaxTriggers == 3
MaxTriggerClock == 3600

---------------------------------------------------------------------------
(* Levels (src/data/levels.ts), beats in quarter beats *)

simple(beats) == [i \in 1..Len(beats) |-> [beat |-> beats[i], hand |-> "any"]]

Note(b, h) == [beat |-> b, hand |-> h]

LevelBasic44 ==
  [id |-> "basic-4-4", loopBeats |-> 16, pattern |-> simple(<<0, 4, 8, 12>>)]

LevelFiveStroke ==
  [id |-> "five-stroke", loopBeats |-> 16,
   pattern |-> <<Note(0, "right"), Note(1, "right"), Note(2, "left"),
                 Note(3, "left"), Note(4, "right"),
                 Note(8, "left"), Note(9, "left"), Note(10, "right"),
                 Note(11, "right"), Note(12, "left")>>]

LevelCascara ==
  [id |-> "cascara", loopBeats |-> 32,
   pattern |-> <<Note(0, "left"), Note(8, "left"), Note(16, "left"),
                 Note(24, "left"),
                 Note(0, "right"), Note(4, "right"), Note(6, "right"),
                 Note(16, "right"), Note(18, "right"), Note(24, "right")>>]

\* Patterns with a beat delta that is not positive (duplicated beats,
\* descending beats, loopBeats below the largest beat): inputs of the
\* scheduler only.
LevelDuplicated ==
  [id |-> "dup", loopBeats |-> 8, pattern |-> simple(<<0, 0, 4, 4>>)]

LevelDescending ==
  [id |-> "desc", loopBeats |-> 8, pattern |-> simple(<<6, 2, 0>>)]

LevelShortLoop ==
  [id |-> "short", loopBeats |-> 4, pattern |-> simple(<<0, 8>>)]

\* A pattern within the Pattern invariant whose last beat is on loopBeats
LevelFullLoop ==
  [id |-> "full", loopBeats |-> 8, pattern |-> simple(<<0, 8>>)]

Levels == {LevelBasic44, LevelFiveStroke}

MalformedLevels ==
  {LevelCascara, LevelDuplicated, LevelDescending, LevelShortLoop, LevelFullLoop}

BpmChoices == {150}

Configs(levels) ==
  [level : levels, bpm : BpmChoices, difficulty : Difficulties]

NoConfig == [null |-> TRUE]

\* No summary was derived yet
NoAnalysis == [null |-> TRUE]

\* localStorage holds no 'rhythmPulseScores' item
NoScores == [key \in {} |-> 0]

---------------------------------------------------------------------------
(* Helpers *)

Abs(x) == IF x < 0 THEN -x ELSE x

Max(a, b) == IF a >= b THEN a ELSE b

RECURSIVE GCD(_, _)
GCD(a, b) == IF b = 0 THEN a ELSE GCD(b, a % b)

Fraction(n, d) == LET g == GCD(n, d) IN IF g = 0 THEN <<0, 1>> ELSE <<n \div g, d \div g>>

\* 60 / gameConfig.bpm, in ms
BeatDuration(bpm) == 60000 \div bpm

EmptyStats ==
  [totalScore |-> 0, combo |-> 0, maxCombo |-> 0, perfects |-> 0, greats |-> 0,
   goods |-> 0, misses |-> 0, averageAccuracy |-> <<0, 1>>, history |-> <<>>]

NoTap == [phase |-> "none", hand |-> "none", time |-> 0, selected |-> 0]

NoHit == [score |-> -1, label |-> "null"]

---------------------------------------------------------------------------
(* The look-ahead scheduler *)

\* scheduleNote that puts the new note instance at the head of the queue
scheduleNoteUnshift(queue, note, time, now) ==
  LET pushed == <<[time |-> time, beat |-> note.beat, hand |-> note.hand,
                   processed |-> FALSE]>> \o queue
      Keep(hit) == hit.time > now - RETENTION
  IN  SelectSeq(pushed, Keep)

\* scheduleNote without the filter of line 154
scheduleNoteKeepAll(queue, note, time, now) ==
  Append(queue, [time |-> time, beat |-> note.beat, hand |-> note.hand,
                 processed |-> FALSE])

\* scheduleNote: push the note instance, then drop what is older than now - 0.5 s
scheduleNote(queue, note, time, now) ==
  LET pushed == Append(queue, [time |-> time, beat |-> note.beat,
                               hand |-> note.hand, processed |-> FALSE])
      Keep(hit) == hit.time > now - RETENTION
  IN  SelectSeq(pushed, Keep)

\* BeatDiff without its guard "if (beatDiff <= 0) beatDiff = 1"
BeatDiffUnguarded(level, idx) ==
  LET pattern == level.pattern
      currentNote == pattern[idx + 1]
      nextIndex == (idx + 1) % Len(pattern)
      nextNote == pattern[nextIndex + 1]
  IN  IF nextIndex = 0
      THEN level.loopBeats - currentNote.beat + nextNote.beat
      ELSE nextNote.beat - currentNote.beat

\* BeatDiff that forgets to subtract the current beat at the wrap
BeatDiffWrapLong(level, idx) ==
  LET pattern == level.pattern
      currentNote == pattern[idx + 1]
      nextIndex == (idx + 1) % Len(pattern)
      nextNote == pattern[nextIndex + 1]
      beatDiff == IF nextIndex = 0
                  THEN level.loopBeats + nextNote.beat
                  ELSE nextNote.beat - currentNote.beat
  IN  IF beatDiff <= 0 THEN BEAT_UNIT ELSE beatDiff

\* The beat delta from pattern index idx to the next index, with the guard
\* for malformed patterns.
BeatDiff(level, idx) ==
  LET pattern == level.pattern
      currentNote == pattern[idx + 1]
      nextIndex == (idx + 1) % Len(pattern)
      nextNote == pattern[nextIndex + 1]
      beatDiff == IF nextIndex = 0
                  THEN level.loopBeats - currentNote.beat + nextNote.beat
                  ELSE nextNote.beat - currentNote.beat
  IN  IF beatDiff <= 0 THEN BEAT_UNIT ELSE beatDiff

\* The metronome loop that re-anchors the cursor on the clock time of the pass
MetronomeLoopFromNow(t, now, beatDuration) ==
  IF t < now + SCHEDULE_AHEAD_TIME THEN now + SCHEDULE_AHEAD_TIME + beatDuration ELSE t

\* while (nextMetronomeTime.current < currentTime + SCHEDULE_AHEAD_TIME)
RECURSIVE MetronomeLoop(_, _, _)
MetronomeLoop(t, now, beatDuration) ==
  IF t < now + SCHEDULE_AHEAD_TIME
  THEN MetronomeLoop(t + beatDuration, now, beatDuration)
  ELSE t

\* NoteLoop as an "if": at most one note per pass
NoteLoopOnce(t, idx, queue, now, config, n) ==
  IF t < now + SCHEDULE_AHEAD_TIME
  THEN LET pattern == config.level.pattern
           step == (BeatDiff(config.level, idx) * BeatDuration(config.bpm))
                     \div BEAT_UNIT
       IN  [nextNoteTime |-> t + step,
            currentBeatInPattern |-> (idx + 1) % Len(pattern),
            expectedHits |-> scheduleNote(queue, pattern[idx + 1], t, now),
            calls |-> n + 1]
  ELSE [nextNoteTime |-> t, currentBeatInPattern |-> idx, expectedHits |-> queue,
        calls |-> n]

\* while (nextNoteTime.current < currentTime + SCHEDULE_AHEAD_TIME)
RECURSIVE NoteLoop(_, _, _, _, _, _)
NoteLoop(t, idx, queue, now, config, n) ==
  IF t < now + SCHEDULE_AHEAD_TIME
  THEN LET pattern == config.level.pattern
           q1 == scheduleNote(queue, pattern[idx + 1], t, now)
           nextIndex == (idx + 1) % Len(pattern)
           step == (BeatDiff(config.level, idx) * BeatDuration(config.bpm))
                     \div BEAT_UNIT
       IN  NoteLoop(t + step, nextIndex, q1, now, config, n + 1)
  ELSE [nextNoteTime |-> t, currentBeatInPattern |-> idx, expectedHits |-> queue,
        calls |-> n]

\* The times the metronome loop hands to playKick, in order
RECURSIVE MetronomeKicks(_, _, _)
MetronomeKicks(t, now, beatDuration) ==
  IF t < now + SCHEDULE_AHEAD_TIME
  THEN <<t>> \o MetronomeKicks(t + beatDuration, now, beatDuration)
  ELSE <<>>

\* SessionOver that lets the pass at elapsed = GAME_DURATION through
SessionOverStrict(now, start) == now - start > GAME_DURATION

\* SessionOver that never ends the session
SessionNeverOver(now, start) == FALSE

\* The session is over for a pass at time now: remaining <= 0
SessionOver(now, start) ==
  LET elapsedTime == now - start
  IN  elapsedTime >= 0 /\ Max(0, GAME_DURATION - elapsedTime) <= 0

---------------------------------------------------------------------------
(* Tap judgment *)

\* a.hand === inputHand || a.hand === 'any'
IsMatch(hit, inputHand) == hit.hand = inputHand \/ hit.hand = "any"

\* Candidates that forgets the processed flag
CandidatesWithProcessed(queue, tapTime, maxWindow) ==
  {i \in 1..Len(queue) : Abs(queue[i].time - tapTime) < maxWindow}

\* Candidates with the window's edge included
CandidatesInclusive(queue, tapTime, maxWindow) ==
  {i \in 1..Len(queue) :
     /\ ~queue[i].processed
     /\ Abs(queue[i].time - tapTime) <= maxWindow}

\* Queue positions of the unprocessed hits within the good window of the tap
Candidates(queue, tapTime, maxWindow) ==
  {i \in 1..Len(queue) :
     /\ ~queue[i].processed
     /\ Abs(queue[i].time - tapTime) < maxWindow}

\* CompareHits by time distance alone
CompareHitsByTime(a, b, tapTime, inputHand) ==
  Abs(a.time - tapTime) - Abs(b.time - tapTime)

\* The comparator of candidates.sort: negative when a sorts before b
CompareHits(a, b, tapTime, inputHand) ==
  LET aMatch == IsMatch(a, inputHand)
      bMatch == IsMatch(b, inputHand)
  IN  IF aMatch /\ ~bMatch THEN -1
      ELSE IF ~aMatch /\ bMatch THEN 1
      ELSE Abs(a.time - tapTime) - Abs(b.time - tapTime)

\* ClosestHit that resolves a tie of the comparator for the later-queued hit
ClosestHitLaterOfTies(queue, tapTime, inputHand, maxWindow) ==
  LET cands == Candidates(queue, tapTime, maxWindow)
  IN  IF cands = {} THEN 0
      ELSE CHOOSE i \in cands :
             \A j \in cands \ {i} :
               LET c == CompareHits(queue[i], queue[j], tapTime, inputHand)
               IN  c < 0 \/ (c = 0 /\ i > j)

\* candidates[0] after the (stable) sort, as a queue position; 0 when there
\* is no candidate
ClosestHit(queue, tapTime, inputHand, maxWindow) ==
  LET cands == Candidates(queue, tapTime, maxWindow)
  IN  IF cands = {} THEN 0
      ELSE CHOOSE i \in cands :
             \A j \in cands \ {i} :
               LET c == CompareHits(queue[i], queue[j], tapTime, inputHand)
               IN  c < 0 \/ (c = 0 /\ i < j)

\* HitScore with the interpolation of the last band reversed
HitScoreRising(diffMs, windows) ==
  IF diffMs < windows[1] THEN 100
  ELSE IF diffMs < windows[2]
       THEN 90 + ((windows[2] - diffMs) * 10) \div (windows[2] - windows[1])
  ELSE IF diffMs < windows[3]
       THEN 70 + ((windows[3] - diffMs) * 20) \div (windows[3] - windows[2])
  ELSE 40 + ((diffMs - windows[3]) * 30) \div (windows[4] - windows[3])

\* The score of a hand-matching hit
HitScore(diffMs, windows) ==
  IF diffMs < windows[1] THEN 100
  ELSE IF diffMs < windows[2]
       THEN 90 + ((windows[2] - diffMs) * 10) \div (windows[2] - windows[1])
  ELSE IF diffMs < windows[3]
       THEN 70 + ((windows[3] - diffMs) * 20) \div (windows[3] - windows[2])
  ELSE 40 + ((windows[4] - diffMs) * 30) \div (windows[4] - windows[3])

\* The label of a hand-matching hit
HitLabel(diffMs, windows) ==
  IF diffMs < windows[2] THEN "Perfect"
  ELSE IF diffMs < windows[3] THEN "Great"
  ELSE "Good"

\* WrongHand that lets every hand pass
WrongHandNever(hit, inputHand) == FALSE

\* The wrong-hand test of the selected hit
WrongHand(hit, inputHand) == hit.hand # "any" /\ hit.hand # inputHand

\* What handleTap decides for a tap that passed the count-in check
Judge(queue, tapTime, inputHand, difficulty) ==
  LET windows == SCORING_WINDOWS(difficulty)
      sel == ClosestHit(queue, tapTime, inputHand, windows[4])
  IN  IF sel = 0
      THEN [selected |-> 0, score |-> 0, label |-> "Miss", isMiss |-> TRUE,
            rawDiff |-> 0]
      ELSE LET rawDiff == tapTime - queue[sel].time
               diffMs == Abs(rawDiff)
           IN  IF WrongHand(queue[sel], inputHand)
               THEN [selected |-> sel, score |-> 0, label |-> "Wrong Drum!",
                     isMiss |-> TRUE, rawDiff |-> rawDiff]
               ELSE [selected |-> sel, score |-> HitScore(diffMs, windows),
                     label |-> HitLabel(diffMs, windows), isMiss |-> FALSE,
                     rawDiff |-> rawDiff]

\* closestHit.processed = true
MarkProcessed(queue, sel) ==
  IF sel = 0 THEN queue ELSE [queue EXCEPT ![sel].processed = TRUE]

\* RecordHit that stores the hand of the note in place of the tapped hand
RecordHitExpectedHand(history, queue, j, tapTime, inputHand, start) ==
  IF j.selected = 0 THEN history
  ELSE Append(history,
              [offset |-> j.rawDiff, isMiss |-> j.isMiss,
               beat |-> queue[j.selected].beat, timestamp |-> tapTime - start,
               score |-> j.score, hand |-> queue[j.selected].hand,
               expectedHand |-> queue[j.selected].hand])

\* hitHistory.current.push(...), only under "if (closestHit)"
RecordHit(history, queue, j, tapTime, inputHand, start) ==
  IF j.selected = 0 THEN history
  ELSE Append(history,
              [offset |-> j.rawDiff, isMiss |-> j.isMiss,
               beat |-> queue[j.selected].beat, timestamp |-> tapTime - start,
               score |-> j.score, hand |-> inputHand,
               expectedHand |-> queue[j.selected].hand])

\* NewCombo that keeps the combo on a zero score
NewComboNoReset(prevCombo, score) == IF score > 0 THEN prevCombo + 1 ELSE prevCombo

\* newCombo of the setStats updater
NewCombo(prevCombo, score) == IF score > 0 THEN prevCombo + 1 ELSE 0

\* The summand of totalScore, in tenths: score * (1 + floor(newCombo/10) * 0.1)
ScoreGain(score, newCombo) == score * (10 + (newCombo \div 10))

\* UpdateStats whose tap count leaves out the misses
UpdateStatsHitsOnly(prev, score) ==
  LET newCombo == NewCombo(prev.combo, score)
      totalTaps == prev.perfects + prev.greats + prev.goods + 1
      acc == prev.averageAccuracy
      newAccuracy == Fraction(acc[1] * (totalTaps - 1) + score * acc[2],
                              acc[2] * totalTaps)
  IN  [prev EXCEPT
         !.totalScore = prev.totalScore + ScoreGain(score, newCombo),
         !.combo = newCombo,
         !.maxCombo = Max(prev.maxCombo, newCombo),
         !.perfects = prev.perfects + (IF score >= 90 THEN 1 ELSE 0),
         !.greats = prev.greats + (IF score >= 70 /\ score < 90 THEN 1 ELSE 0),
         !.goods = prev.goods + (IF score > 10 /\ score < 70 THEN 1 ELSE 0),
         !.misses = prev.misses + (IF score <= 10 THEN 1 ELSE 0),
         !.averageAccuracy = newAccuracy]

\* UpdateStats whose bands have no upper edge
UpdateStatsOpenBands(prev, score) ==
  LET newCombo == NewCombo(prev.combo, score)
      totalTaps == prev.perfects + prev.greats + prev.goods + prev.misses + 1
      acc == prev.averageAccuracy
      newAccuracy == Fraction(acc[1] * (totalTaps - 1) + score * acc[2],
                              acc[2] * totalTaps)
  IN  [prev EXCEPT
         !.totalScore = prev.totalScore + ScoreGain(score, newCombo),
         !.combo = newCombo,
         !.maxCombo = Max(prev.maxCombo, newCombo),
         !.perfects = prev.perfects + (IF score >= 90 THEN 1 ELSE 0),
         !.greats = prev.greats + (IF score >= 70 THEN 1 ELSE 0),
         !.goods = prev.goods + (IF score > 10 THEN 1 ELSE 0),
         !.misses = prev.misses + (IF score <= 10 THEN 1 ELSE 0),
         !.averageAccuracy = newAccuracy]

\* The setStats updater of handleTap
UpdateStats(prev, score) ==
  LET newCombo == NewCombo(prev.combo, score)
      totalTaps == prev.perfects + prev.greats + prev.goods + prev.misses + 1
      acc == prev.averageAccuracy
      newAccuracy == Fraction(acc[1] * (totalTaps - 1) + score * acc[2],
                              acc[2] * totalTaps)
  IN  [prev EXCEPT
         !.totalScore = prev.totalScore + ScoreGain(score, newCombo),
         !.combo = newCombo,
         !.maxCombo = Max(prev.maxCombo, newCombo),
         !.perfects = prev.perfects + (IF score >= 90 THEN 1 ELSE 0),
         !.greats = prev.greats + (IF score >= 70 /\ score < 90 THEN 1 ELSE 0),
         !.goods = prev.goods + (IF score > 10 /\ score < 70 THEN 1 ELSE 0),
         !.misses = prev.misses + (IF score <= 10 THEN 1 ELSE 0),
         !.averageAccuracy = newAccuracy]

---------------------------------------------------------------------------
(* State *)

engineRefs == <<nextNoteTime, nextMetronomeTime, currentBeatInPattern,
                gameStartTime, loopStartTime>>

sessionData == <<stats, lastHit, expectedHits, hitHistory, judgedTaps>>

Init ==
  /\ gameState = "IDLE"
  /\ gameConfig = NoConfig
  /\ stats = EmptyStats
  /\ lastHit = NoHit
  /\ audio = "none"
  /\ clock = 0
  /\ nextNoteTime = 0
  /\ nextMetronomeTime = 0
  /\ currentBeatInPattern = 0
  /\ timerID = 0
  /\ gameStartTime = 0
  /\ expectedHits = <<>>
  /\ hitHistory = <<>>
  /\ loopStartTime = 0
  /\ pendingStarts = <<>>
  /\ startTimers = <<>>
  /\ resumePending = FALSE
  /\ scheduled = 0
  /\ starts = 0
  /\ taps = 0
  /\ judgedTaps = 0
  /\ lastTap = NoTap
  /\ analysis = NoAnalysis
  /\ highScores = NoScores
  /\ pendingWakes = 0

\* One run of scheduler() that got past its two guards, at time now, from the
\* given cursors: the session is over (endGame), or the two loops ran.
SchedulerRun(config, now, nmt, nnt, idx, queue, start) ==
  IF SessionOver(now, start)
  THEN [over |-> TRUE, nextMetronomeTime |-> nmt, nextNoteTime |-> nnt,
        currentBeatInPattern |-> idx, expectedHits |-> queue, calls |-> 0]
  ELSE LET r == NoteLoop(nnt, idx, queue, now, config, 0)
       IN  [over |-> FALSE, calls |-> r.calls,
            nextMetronomeTime |-> MetronomeLoop(nmt, now, BeatDuration(config.bpm)),
            nextNoteTime |-> r.nextNoteTime,
            currentBeatInPattern |-> r.currentBeatInPattern,
            expectedHits |-> r.expectedHits]

\* The body of endGame as far as the engine state goes
EndGameStats(prev, history) == [prev EXCEPT !.history = history]

\* (count / totalHits) * 100, and 0 for an empty history
Rate(count, totalHits) ==
  IF totalHits > 0 THEN Fraction(count * 100, totalHits) ELSE <<0, 1>>

\* arr.reduce((acc, curr) => acc + Math.abs(curr.offset), 0)
RECURSIVE SumAbsOffset(_)
SumAbsOffset(arr) ==
  IF arr = <<>> THEN 0 ELSE Abs(Head(arr).offset) + SumAbsOffset(Tail(arr))

\* history.reduce((acc, h) => acc + h.score, 0)
RECURSIVE SumScore(_)
SumScore(arr) == IF arr = <<>> THEN 0 ELSE Head(arr).score + SumScore(Tail(arr))

\* Trend that needs 3 events only
TrendFromThree(history) ==
  LET totalHits == Len(history)
      midPoint == totalHits \div 2
      firstHalf == SubSeq(history, 1, midPoint)
      secondHalf == SubSeq(history, midPoint + 1, totalHits)
      firstLen == IF Len(firstHalf) = 0 THEN 1 ELSE Len(firstHalf)
      secondLen == IF Len(secondHalf) = 0 THEN 1 ELSE Len(secondHalf)
      firstSum == SumAbsOffset(firstHalf)
      secondSum == SumAbsOffset(secondHalf)
  IN  IF totalHits > 2
      THEN IF 5 * secondSum * firstLen > 6 * firstSum * secondLen
           THEN "degrading"
           ELSE IF 5 * secondSum * firstLen < 4 * firstSum * secondLen
           THEN "improving"
           ELSE "stable"
      ELSE "stable"

\* The trend of lines 182-195.  getAvgAbsDiff divides by arr.length || 1;
\* secondAvg > firstAvg * 1.2 and secondAvg < firstAvg * 0.8 are compared
\* without division
Trend(history) ==
  LET totalHits == Len(history)
      midPoint == totalHits \div 2
      firstHalf == SubSeq(history, 1, midPoint)
      secondHalf == SubSeq(history, midPoint + 1, totalHits)
      firstLen == IF Len(firstHalf) = 0 THEN 1 ELSE Len(firstHalf)
      secondLen == IF Len(secondHalf) = 0 THEN 1 ELSE Len(secondHalf)
      firstSum == SumAbsOffset(firstHalf)
      secondSum == SumAbsOffset(secondHalf)
  IN  IF totalHits > 4
      THEN IF 5 * secondSum * firstLen > 6 * firstSum * secondLen
           THEN "degrading"
           ELSE IF 5 * secondSum * firstLen < 4 * firstSum * secondLen
           THEN "improving"
           ELSE "stable"
      ELSE "stable"

\* The filters of lines 172-173 and 179-180, 225-226
IsEarly(h) == h.offset < -15

IsLate(h) == h.offset > 15

\* IsOffbeatMiss without "h.isMiss &&"
IsOffbeatMissAnyEvent(h) == h.beat % BEAT_UNIT # 0

IsOffbeatMiss(h) == h.isMiss /\ h.beat % BEAT_UNIT # 0

IsDownbeatMiss(h) == h.isMiss /\ h.beat % BEAT_UNIT = 0

IsMiss(h) == h.isMiss

IsPerfect(h) == h.score >= 90

\* analysisStats of endGame, derived from hitHistory.current
EndGameAnalysis(history) ==
  LET totalHits == Len(history)
  IN  [perfects |-> Len(SelectSeq(history, IsPerfect)),
       misses |-> Len(SelectSeq(history, IsMiss)),
       averageAccuracy |-> IF totalHits > 0
                           THEN Fraction(SumScore(history), totalHits)
                           ELSE <<0, 1>>,
       earlyRate |-> Rate(Len(SelectSeq(history, IsEarly)), totalHits),
       lateRate |-> Rate(Len(SelectSeq(history, IsLate)), totalHits),
       offbeatMisses |-> Len(SelectSeq(history, IsOffbeatMiss)),
       downbeatMisses |-> Len(SelectSeq(history, IsDownbeatMiss)),
       trend |-> Trend(history)]

\* previousBestScore of the stored entry under (level id, difficulty)
PreviousBestScore(scores, config) ==
  LET key == <<config.level.id, config.difficulty>>
  IN  IF key \in DOMAIN scores THEN scores[key].score ELSE 0

\* The high score logic of the setStats updater of endGame: the entry is
\* written with Math.floor(totalScore) when totalScore (here in tenths) is
\* above the stored score
StoreScore(scores, config, currentStats) ==
  LET key == <<config.level.id, config.difficulty>>
  IN  IF currentStats.totalScore > PreviousBestScore(scores, config) * 10
      THEN [k \in DOMAIN scores \cup {key} |->
              IF k = key
              THEN [score |-> currentStats.totalScore \div 10,
                    accuracy |-> currentStats.averageAccuracy]
              ELSE scores[k]]
      ELSE scores

\* SchedulerPass that records a miss for every hit that leaves the queue
\* unprocessed
SchedulerPassCountsExpired(nmt, nnt, idx, start, count) ==
  LET r == SchedulerRun(gameConfig, clock, nmt, nnt, idx, expectedHits, start)
      expired == {i \in 1..Len(expectedHits) :
                    /\ ~expectedHits[i].processed
                    /\ \A k \in 1..Len(r.expectedHits) :
                         r.expectedHits[k].time # expectedHits[i].time}
  IN  /\ nextMetronomeTime' = r.nextMetronomeTime
      /\ scheduled' = count + r.calls
      /\ nextNoteTime' = r.nextNoteTime
      /\ currentBeatInPattern' = r.currentBeatInPattern
      /\ expectedHits' = r.expectedHits
      /\ IF r.over
         THEN /\ timerID' = 0
              /\ audio' = "suspended"
              /\ stats' = EndGameStats(stats, hitHistory)
              /\ analysis' = EndGameAnalysis(hitHistory)
              /\ highScores' = StoreScore(highScores, gameConfig, stats)
              /\ gameState' = "RESULTS"
         ELSE /\ timerID' = clock + LOOKAHEAD
              /\ audio' = "running"
              /\ gameState' = "PLAYING"
              /\ stats' = (IF expired = {} THEN stats
                           ELSE [stats EXCEPT !.combo = 0,
                                              !.misses = @ + Cardinality(expired)])
              /\ UNCHANGED <<analysis, highScores>>

\* The writes of one run of scheduler() that got past its guards (the state
\* is PLAYING and the clock runs), from the given cursors.
SchedulerPass(nmt, nnt, idx, start, count) ==
  LET r == SchedulerRun(gameConfig, clock, nmt, nnt, idx, expectedHits, start)
  IN  /\ nextMetronomeTime' = r.nextMetronomeTime
      /\ scheduled' = count + r.calls
      /\ nextNoteTime' = r.nextNoteTime
      /\ currentBeatInPattern' = r.currentBeatInPattern
      /\ expectedHits' = r.expectedHits
      /\ IF r.over
         THEN /\ timerID' = 0
              /\ audio' = "suspended"
              /\ stats' = EndGameStats(stats, hitHistory)
              /\ analysis' = EndGameAnalysis(hitHistory)
              /\ highScores' = StoreScore(highScores, gameConfig, stats)
              /\ gameState' = "RESULTS"
         ELSE /\ timerID' = clock + LOOKAHEAD
              /\ audio' = "running"
              /\ gameState' = "PLAYING"
              /\ stats' = stats
              /\ UNCHANGED <<analysis, highScores>>

\* Cleared for a cleanup that clears no timeout
ClearedNever == pendingWakes

\* The timeouts left pending by "if (timerID.current)
\* window.clearTimeout(timerID.current)"
Cleared == IF timerID # 0 THEN pendingWakes - 1 ELSE pendingWakes

\* The timeouts added by the step: "window.setTimeout(scheduler, LOOKAHEAD)"
\* of a pass that went through
Armed == IF timerID' # 0 THEN 1 ELSE 0

\* The guards without the check of line 256 for a suspended context
SchedulerGuardsRunningOnly(state, config, ctx) ==
  /\ config # NoConfig
  /\ ctx # "none"
  /\ state = "PLAYING"

\* The guards of scheduler(): it returns at once when one fails
SchedulerGuards(state, config, ctx) ==
  /\ config # NoConfig
  /\ ctx # "none"
  /\ state = "PLAYING"
  /\ ctx # "suspended"

\* The scheduler timeout fires
SchedulerWake ==
  /\ timerID # 0
  /\ audio = "running" => clock >= timerID
  /\ IF SchedulerGuards(gameState, gameConfig, audio)
     THEN SchedulerPass(nextMetronomeTime, nextNoteTime, currentBeatInPattern,
                        gameStartTime, scheduled)
     ELSE /\ timerID' = 0
          /\ UNCHANGED <<gameState, audio, stats, nextMetronomeTime,
                         nextNoteTime, currentBeatInPattern, expectedHits,
                         scheduled,
                         analysis, highScores>>
  /\ pendingWakes' = pendingWakes - 1 + Armed
  /\ UNCHANGED <<gameConfig, lastHit, clock, gameStartTime, hitHistory,
                 loopStartTime, pendingStarts, startTimers, resumePending,
                 starts, taps, judgedTaps, lastTap>>

---------------------------------------------------------------------------
(* Session start *)

\* startGame(config) up to its "await initAudio()": the audio context exists
\* and runs afterwards
StartGameWithin(config, limit) ==
  /\ starts < limit
  /\ starts' = starts + 1
  /\ audio' = "running"
  /\ pendingStarts' = Append(pendingStarts, config)

StartGameCall(config) == StartGameWithin(config, MaxStarts)

\* selectLevel: the level selector is shown in state IDLE
SelectLevelWithin(configs, limit) ==
  \E config \in configs :
    /\ gameState = "IDLE"
    /\ gameConfig' = config
    /\ StartGameWithin(config, limit)
    /\ timerID' = 0
    /\ resumePending' = FALSE
    /\ pendingWakes' = Cleared
    /\ UNCHANGED <<gameState, stats, lastHit, clock, engineRefs, expectedHits,
                   hitHistory, startTimers, scheduled, taps, judgedTaps, lastTap,
                   analysis, highScores>>

SelectLevelFrom(configs) == SelectLevelWithin(configs, MaxStarts)

SelectLevel == SelectLevelFrom(Configs(Levels))

\* StartGameContinue without "hitHistory.current = []"
StartGameContinueKeepHistory ==
  /\ pendingStarts # <<>>
  /\ pendingStarts' = Tail(pendingStarts)
  /\ gameState' = "STARTING"
  /\ stats' = EmptyStats
  /\ lastHit' = NoHit
  /\ expectedHits' = <<>>
  /\ hitHistory' = hitHistory
  /\ judgedTaps' = 0
  /\ startTimers' = Append(startTimers,
                           [due |-> clock + START_DELAY,
                            config |-> Head(pendingStarts)])
  /\ timerID' = 0
  /\ resumePending' = FALSE
  /\ pendingWakes' = Cleared
  /\ UNCHANGED <<gameConfig, audio, clock, engineRefs, scheduled, starts, taps,
                 lastTap,
                 analysis, highScores>>

\* startGame after the await: state STARTING, the resets, the 1000 ms timeout
StartGameContinue ==
  /\ pendingStarts # <<>>
  /\ pendingStarts' = Tail(pendingStarts)
  /\ gameState' = "STARTING"
  /\ stats' = EmptyStats
  /\ lastHit' = NoHit
  /\ expectedHits' = <<>>
  /\ hitHistory' = <<>>
  /\ judgedTaps' = 0
  /\ startTimers' = Append(startTimers,
                           [due |-> clock + START_DELAY,
                            config |-> Head(pendingStarts)])
  /\ timerID' = 0
  /\ resumePending' = FALSE
  /\ pendingWakes' = Cleared
  /\ UNCHANGED <<gameConfig, audio, clock, engineRefs, scheduled, starts, taps,
                 lastTap,
                 analysis, highScores>>

\* The 1000 ms callback of startGame: the cursors, then setGameState(PLAYING)
\* and with it the effect that calls scheduler()
StartCallback ==
  /\ startTimers # <<>>
  /\ audio # "running" \/ clock >= Head(startTimers).due
  /\ startTimers' = Tail(startTimers)
  /\ LET config == Head(startTimers).config
         beatDuration == BeatDuration(config.bpm)
         countInDuration == beatDuration * COUNT_IN_BEATS
         audioStartTime == clock + AUDIO_START_OFFSET
         set == audio # "none"
         nmt == IF set THEN audioStartTime ELSE nextMetronomeTime
         nnt == IF set
                THEN audioStartTime
                       + (config.level.pattern[1].beat * beatDuration) \div BEAT_UNIT
                ELSE nextNoteTime
         start == IF set THEN audioStartTime + countInDuration ELSE gameStartTime
         idx == IF set THEN 0 ELSE currentBeatInPattern
     IN  /\ loopStartTime' = (IF set THEN audioStartTime ELSE loopStartTime)
         /\ gameStartTime' = start
         /\ IF gameState = "PLAYING"
            THEN /\ nextMetronomeTime' = nmt
                 /\ nextNoteTime' = nnt
                 /\ currentBeatInPattern' = idx
                 /\ scheduled' = 0
                 /\ UNCHANGED <<gameState, audio, stats, timerID, expectedHits,
                                resumePending,
                                analysis, highScores>>
            ELSE IF SchedulerGuards("PLAYING", gameConfig, audio)
            THEN /\ SchedulerPass(nmt, nnt, idx, start, 0)
                 /\ resumePending' = FALSE
            ELSE /\ gameState' = "PLAYING"
                 /\ nextMetronomeTime' = nmt
                 /\ nextNoteTime' = nnt
                 /\ currentBeatInPattern' = idx
                 /\ scheduled' = 0
                 /\ timerID' = 0
                 /\ resumePending' = (gameConfig # NoConfig /\ audio = "suspended")
                 /\ UNCHANGED <<audio, stats, expectedHits,
                                analysis, highScores>>
  /\ pendingWakes' = (IF gameState = "PLAYING" THEN pendingWakes ELSE Cleared + Armed)
  /\ UNCHANGED <<gameConfig, lastHit, clock, hitHistory, pendingStarts, starts,
                 taps, judgedTaps, lastTap>>

---------------------------------------------------------------------------
(* The audio clock *)

ClockSteps == {50}

\* The audio clock advances by d while the context runs.  A pending start
\* timeout fires when it is due, the await of initAudio ends before the clock
\* moves, and a scheduler timeout fires at most maxDelay after it is due.
TickBy(steps, limit, maxDelay) ==
  \E d \in steps :
    /\ audio = "running"
    /\ clock + d <= limit
    /\ pendingStarts = <<>>
    /\ \A i \in 1..Len(startTimers) : clock + d <= startTimers[i].due
    /\ timerID # 0 => clock + d <= timerID + maxDelay
    /\ clock' = clock + d
    /\ UNCHANGED <<gameState, gameConfig, stats, lastHit, audio, engineRefs,
                   timerID, expectedHits, hitHistory, pendingStarts, startTimers,
                   resumePending, scheduled, starts, taps, judgedTaps, lastTap,
                   analysis, highScores, pendingWakes>>

Tick == TickBy(ClockSteps, MaxClock, MaxWakeDelay)

---------------------------------------------------------------------------
(* handleTap *)

\* TapRejected without the count-in check
TapRejectedNoCountIn(state, ctx, config, tapTime, start) ==
  \/ state # "PLAYING"
  \/ ctx = "none"
  \/ config = NoConfig

\* TapRejected without the check of the game state
TapRejectedAnyState(state, ctx, config, tapTime, start) ==
  \/ ctx = "none"
  \/ config = NoConfig
  \/ tapTime < start

\* The early returns of handleTap: not PLAYING, no context, no config, or
\* a tap before gameStartTime (count-in)
TapRejected(state, ctx, config, tapTime, start) ==
  \/ state # "PLAYING"
  \/ ctx = "none"
  \/ config = NoConfig
  \/ tapTime < start

HandleTap(inputHand) ==
  /\ taps' = taps + 1
  /\ IF TapRejected(gameState, audio, gameConfig, clock, gameStartTime)
     THEN /\ lastTap' = [phase |-> (IF gameState = "PLAYING" THEN "countIn"
                                    ELSE gameState),
                         hand |-> inputHand, time |-> 0, selected |-> 0]
          /\ UNCHANGED sessionData
     ELSE LET tapTime == clock
              j == Judge(expectedHits, tapTime, inputHand, gameConfig.difficulty)
          IN  /\ expectedHits' = MarkProcessed(expectedHits, j.selected)
              /\ hitHistory' = RecordHit(hitHistory, expectedHits, j, tapTime,
                                         inputHand, gameStartTime)
              /\ stats' = UpdateStats(stats, j.score)
              /\ lastHit' = [score |-> j.score, label |-> j.label]
              /\ judgedTaps' = judgedTaps + 1
              /\ lastTap' = [phase |-> "judged", hand |-> inputHand,
                             time |-> tapTime, selected |-> j.selected]
  /\ UNCHANGED <<gameState, gameConfig, audio, clock, engineRefs, timerID,
                 pendingStarts, startTimers, resumePending, scheduled, starts,
                 analysis, highScores, pendingWakes>>

\* A tap of either hand, at most MaxTaps of them
Tap == \E inputHand \in TapHands : taps < MaxTaps /\ HandleTap(inputHand)

---------------------------------------------------------------------------
(* Pause and resume *)

\* TogglePause whose effect cleanup leaves the timeout pending
TogglePauseKeepTimer ==
  /\ gameState \in {"PLAYING", "PAUSED"}
  /\ IF gameState = "PLAYING"
     THEN /\ gameState' = "PAUSED"
          /\ timerID' = timerID
          /\ resumePending' = FALSE
          /\ audio' = (IF audio = "none" THEN audio ELSE "suspended")
          /\ UNCHANGED <<stats, nextMetronomeTime, nextNoteTime,
                         currentBeatInPattern, expectedHits, scheduled,
                         analysis, highScores>>
     ELSE IF SchedulerGuards("PLAYING", gameConfig, audio)
     THEN /\ SchedulerPass(nextMetronomeTime, nextNoteTime, currentBeatInPattern,
                           gameStartTime, scheduled)
          /\ resumePending' = FALSE
     ELSE /\ gameState' = "PLAYING"
          /\ timerID' = 0
          /\ resumePending' = (gameConfig # NoConfig /\ audio = "suspended")
          /\ UNCHANGED <<audio, stats, nextMetronomeTime, nextNoteTime,
                         currentBeatInPattern, expectedHits, scheduled,
                         analysis, highScores>>
  /\ pendingWakes' = (IF gameState = "PLAYING" THEN pendingWakes ELSE Cleared + Armed)
  /\ UNCHANGED <<gameConfig, lastHit, clock, gameStartTime, loopStartTime,
                 hitHistory, pendingStarts, startTimers, starts, taps,
                 judgedTaps, lastTap>>

\* togglePause, and the effect that runs on the new state: its cleanup clears
\* the timeout and deactivates a pending resume; in PAUSED it suspends the
\* context; in PLAYING it resumes a suspended context (and calls scheduler()
\* when that completes) or calls scheduler() at once.
TogglePause ==
  /\ gameState \in {"PLAYING", "PAUSED"}
  /\ IF gameState = "PLAYING"
     THEN /\ gameState' = "PAUSED"
          /\ timerID' = 0
          /\ resumePending' = FALSE
          /\ audio' = (IF audio = "none" THEN audio ELSE "suspended")
          /\ UNCHANGED <<stats, nextMetronomeTime, nextNoteTime,
                         currentBeatInPattern, expectedHits, scheduled,
                         analysis, highScores>>
     ELSE IF SchedulerGuards("PLAYING", gameConfig, audio)
     THEN /\ SchedulerPass(nextMetronomeTime, nextNoteTime, currentBeatInPattern,
                           gameStartTime, scheduled)
          /\ resumePending' = FALSE
     ELSE /\ gameState' = "PLAYING"
          /\ timerID' = 0
          /\ resumePending' = (gameConfig # NoConfig /\ audio = "suspended")
          /\ UNCHANGED <<audio, stats, nextMetronomeTime, nextNoteTime,
                         currentBeatInPattern, expectedHits, scheduled,
                         analysis, highScores>>
  /\ pendingWakes' = Cleared + Armed
  /\ UNCHANGED <<gameConfig, lastHit, clock, gameStartTime, loopStartTime,
                 hitHistory, pendingStarts, startTimers, starts, taps,
                 judgedTaps, lastTap>>

\* audioContext.resume() of the effect completes: "if (isActive) scheduler()"
ResumeDone ==
  /\ resumePending
  /\ resumePending' = FALSE
  /\ IF SchedulerGuards(gameState, gameConfig, "running")
     THEN SchedulerPass(nextMetronomeTime, nextNoteTime, currentBeatInPattern,
                        gameStartTime, scheduled)
     ELSE /\ audio' = "running"
          /\ timerID' = 0
          /\ UNCHANGED <<gameState, stats, nextMetronomeTime, nextNoteTime,
                         currentBeatInPattern, expectedHits, scheduled,
                         analysis, highScores>>
  /\ pendingWakes' = pendingWakes + Armed
  /\ UNCHANGED <<gameConfig, lastHit, clock, gameStartTime, loopStartTime,
                 hitHistory, pendingStarts, startTimers, starts, taps,
                 judgedTaps, lastTap>>

---------------------------------------------------------------------------

Next ==
  \/ SelectLevel
  \/ StartGameContinue
  \/ StartCallback
  \/ Tick
  \/ SchedulerWake
  \/ Tap
  \/ TogglePause
  \/ ResumeDone

Spec == Init /\ [][Next]_vars

---------------------------------------------------------------------------
(* The scheduler alone, over well-formed and malformed patterns, with wakes *)
(* delayed by any amount (a throttled timer) *)

SchedLevels == Levels \cup MalformedLevels

SchedSteps == {50, 400, 1600}

\* Tempos of the slider (60..240) whose quarter beat is a whole number of ms
SchedBpmChoices == {120, 150}

SelectLevelSched ==
  SelectLevelFrom([level : SchedLevels, bpm : SchedBpmChoices,
                   difficulty : {"MEDIUM"}])

TickSched == TickBy(SchedSteps, MaxSchedClock, MaxSchedClock)

NextSched ==
  \/ SelectLevelSched
  \/ StartGameContinue
  \/ StartCallback
  \/ TickSched
  \/ SchedulerWake

SpecSched == Init /\ [][NextSched]_vars

\* The emitted note times, in emission order, and the cursor after them
EmittedAscending ==
  /\ \A i \in 1..(Len(expectedHits) - 1) :
       expectedHits[i].time < expectedHits[i + 1].time
  /\ expectedHits # <<>> => expectedHits[Len(expectedHits)].time < nextNoteTime

\* C1: within a session nextNoteTime never decreases from one step to the
\* next, it is strictly larger after every scheduler pass that emitted a note,
\* and every emitted note lies strictly after the one emitted before it and
\* strictly before the cursor (each emission advanced the cursor), for every
\* pattern, malformed ones included.
C1_NextNoteTimeAdvances ==
  [][(startTimers' = startTimers)
       => /\ nextNoteTime' >= nextNoteTime
          /\ scheduled' > scheduled => nextNoteTime' > nextNoteTime
          /\ EmittedAscending']_vars

\* C1 witness: the pattern with duplicated beats went through its zero beat
\* delta: two queued notes of the same beat, one beat apart in time, after
\* more than one pass through the pattern
C1_Witness ==
  /\ gameState = "PLAYING"
  /\ gameConfig # NoConfig
  /\ gameConfig.level = LevelDuplicated
  /\ \E i \in 1..(Len(expectedHits) - 1) :
       /\ expectedHits[i + 1].beat = expectedHits[i].beat
       /\ expectedHits[i + 1].time
            = expectedHits[i].time + BeatDuration(gameConfig.bpm)
  /\ scheduled > Len(gameConfig.level.pattern)

---------------------------------------------------------------------------
(* Claims about handleTap, stated over the steps and states of Spec *)

\* A step that is a call of handleTap
TapStep == taps' = taps + 1

\* A step that is a call of handleTap which judged the tap
JudgedTapStep == TapStep /\ lastTap'.phase = "judged"

\* The good window of the session's difficulty, ms
GoodWindow == SCORING_WINDOWS(gameConfig.difficulty)[4]

\* Queue positions of the unprocessed hits strictly within the good window of
\* a tap at time t
InTolerance(t) ==
  {i \in 1..Len(expectedHits) :
     /\ ~expectedHits[i].processed
     /\ Abs(expectedHits[i].time - t) < GoodWindow}

\* Hit i of the queue accepts the hand
HandOk(i, hand) == expectedHits[i].hand \in {hand, "any"}

\* C2: a tap whose clock time is before gameStartTime (count-in) leaves the
\* history, every SessionStats counter and every processed flag unchanged.
C2_CountInTapIgnored ==
  [][(TapStep /\ gameState = "PLAYING" /\ clock < gameStartTime)
       => /\ hitHistory' = hitHistory
          /\ stats' = stats
          /\ expectedHits' = expectedHits]_vars

\* C2 witness: a tap arrived during the count-in while an unprocessed note was
\* within the good window of it
C2_Witness ==
  /\ gameState = "PLAYING"
  /\ lastTap.phase = "countIn"
  /\ clock < gameStartTime
  /\ InTolerance(clock) # {}
  /\ hitHistory = <<>>

\* C3: when two or more unprocessed hits are within tolerance of a tap and
\* exactly one of them accepts the tapped hand, that one is selected and
\* marked processed, whatever the time distances.
C3_HandMatchSelected ==
  [][JudgedTapStep
       => LET cands == InTolerance(clock)
              match == {i \in cands : HandOk(i, lastTap'.hand)}
          IN  (Cardinality(cands) >= 2 /\ Cardinality(match) = 1)
                => /\ lastTap'.selected \in match
                   /\ expectedHits'[lastTap'.selected].processed]_vars

\* C3 witness: the selected hit accepts the tapped hand while an unprocessed
\* hit that does not accept it is strictly closer to the tap
C3_Witness ==
  /\ lastTap.phase = "judged"
  /\ lastTap.selected # 0
  /\ lastTap.selected <= Len(expectedHits)
  /\ clock = lastTap.time
  /\ HandOk(lastTap.selected, lastTap.hand)
  /\ expectedHits[lastTap.selected].processed
  /\ Abs(expectedHits[lastTap.selected].time - lastTap.time) < GoodWindow
  /\ \E j \in InTolerance(lastTap.time) :
       /\ ~HandOk(j, lastTap.hand)
       /\ Abs(expectedHits[j].time - lastTap.time)
            < Abs(expectedHits[lastTap.selected].time - lastTap.time)
  /\ Cardinality({i \in InTolerance(lastTap.time) : HandOk(i, lastTap.hand)}) = 0

\* C4: a hit's processed flag never returns to false, and a tap never selects
\* a hit that is already processed.
C4_ProcessedOnce ==
  [][/\ \A i \in 1..Len(expectedHits) : \A k \in 1..Len(expectedHits') :
          (expectedHits[i].time = expectedHits'[k].time
             /\ expectedHits[i].processed)
            => expectedHits'[k].processed
     /\ (JudgedTapStep /\ lastTap'.selected # 0)
          => ~expectedHits[lastTap'.selected].processed]_vars

\* C4 witness: a tap was judged while a hit processed by an earlier tap was
\* within the good window of it, and it selected another hit
C4_Witness ==
  /\ lastTap.phase = "judged"
  /\ lastTap.selected # 0
  /\ \E i \in 1..Len(expectedHits) :
       /\ i # lastTap.selected
       /\ expectedHits[i].processed
       /\ Abs(expectedHits[i].time - lastTap.time) < GoodWindow
       /\ Abs(expectedHits[i].time - lastTap.time)
            < Abs(expectedHits[lastTap.selected].time - lastTap.time)

\* C5: every judged tap (PLAYING, clock at or after gameStartTime) appends
\* exactly one HitEvent to the session history, stray taps and wrong-hand
\* misses included.
C5_EveryJudgedTapRecorded ==
  [][JudgedTapStep => Len(hitHistory') = Len(hitHistory) + 1]_vars

\* C7: a tap whose selected hit requires the other hand scores 0 as a miss;
\* the HitEvent records the hit's hand as expectedHand and the tapped hand as
\* hand; the hit is marked processed, the combo is 0 and misses is one more.
C7_WrongHandMiss ==
  [][(JudgedTapStep /\ lastTap'.selected # 0
        /\ ~HandOk(lastTap'.selected, lastTap'.hand))
       => /\ lastHit'.score = 0
          /\ Len(hitHistory') = Len(hitHistory) + 1
          /\ LET e == hitHistory'[Len(hitHistory')]
             IN  /\ e.score = 0
                 /\ e.isMiss
                 /\ e.expectedHand = expectedHits[lastTap'.selected].hand
                 /\ e.hand = lastTap'.hand
          /\ expectedHits'[lastTap'.selected].processed
          /\ stats'.combo = 0
          /\ stats'.misses = stats.misses + 1
          /\ stats'.totalScore = stats.totalScore]_vars

\* C7 witness: after an accepted hit built a combo of 1, a tap selected a hit
\* of the other hand
C7_Witness ==
  /\ lastTap.phase = "judged"
  /\ lastTap.selected # 0
  /\ Len(hitHistory) = 2
  /\ hitHistory[1].score > 0
  /\ hitHistory[2].isMiss
  /\ hitHistory[2].expectedHand \notin {"any", hitHistory[2].hand}
  /\ hitHistory[2].hand = lastTap.hand
  /\ stats.maxCombo = 1
  /\ stats.combo = 0
  /\ stats.misses = 1

\* C8: a judged tap with no unprocessed hit strictly within the good window
\* scores 0, adds one to misses, resets the combo, leaves totalScore and
\* every processed flag unchanged.
C8_StrayMiss ==
  [][(JudgedTapStep /\ InTolerance(clock) = {})
       => /\ lastHit'.score = 0
          /\ stats'.misses = stats.misses + 1
          /\ stats'.combo = 0
          /\ stats'.totalScore = stats.totalScore
          /\ expectedHits' = expectedHits]_vars

\* C8 witness: after an accepted hit, a tap found an unprocessed hit exactly
\* at the edge of the good window and nothing inside it
C8_Witness ==
  /\ lastTap.phase = "judged"
  /\ lastTap.selected = 0
  /\ clock = lastTap.time
  /\ stats.maxCombo = 1
  /\ stats.combo = 0
  /\ stats.misses = 1
  /\ stats.totalScore > 0
  /\ \E i \in 1..Len(expectedHits) :
       /\ ~expectedHits[i].processed
       /\ Abs(expectedHits[i].time - lastTap.time) = GoodWindow

\* C9: for a hand-matching hit, the band of diffMs fixes label, score range
\* and counter: below the perfect window Perfect, 90..100, perfects; from the
\* perfect to below the great window Great, 70..89, greats; from the great to
\* below the good window Good, 40..69, goods.
C9_BandsAgree ==
  [][(JudgedTapStep /\ lastTap'.selected # 0
        /\ HandOk(lastTap'.selected, lastTap'.hand))
       => LET w == SCORING_WINDOWS(gameConfig.difficulty)
              d == Abs(clock - expectedHits[lastTap'.selected].time)
              counters(st) == <<st.perfects, st.greats, st.goods, st.misses>>
              c == counters(stats)
          IN  /\ d < w[2]
                   => /\ lastHit'.label = "Perfect"
                      /\ lastHit'.score \in 90..100
                      /\ counters(stats') = <<c[1] + 1, c[2], c[3], c[4]>>
              /\ (w[2] <= d /\ d < w[3])
                   => /\ lastHit'.label = "Great"
                      /\ lastHit'.score \in 70..89
                      /\ counters(stats') = <<c[1], c[2] + 1, c[3], c[4]>>
              /\ (w[3] <= d /\ d < w[4])
                   => /\ lastHit'.label = "Good"
                      /\ lastHit'.score \in 40..69
                      /\ counters(stats') = <<c[1], c[2], c[3] + 1, c[4]>>]_vars

---------------------------------------------------------------------------
(* One session of the basic level followed on a 1 ms clock from gameStartTime *)
(* on, with the scheduler woken on time: a player who taps at notes with any *)
(* offset inside the good window *)

FineSteps == {1}

CoarseSteps == {100}

SelectLevelFine == SelectLevelFrom(Configs({LevelBasic44}))

\* Something is left to tap before the clock's limit
StillToTap ==
  \/ nextNoteTime <= MaxFineClock
  \/ \E i \in 1..Len(expectedHits) :
       ~expectedHits[i].processed /\ expectedHits[i].time >= gameStartTime

TickFine ==
  IF gameState = "PLAYING" /\ clock >= gameStartTime
  THEN StillToTap /\ TickBy(FineSteps, MaxFineClock, 0)
  ELSE TickBy(CoarseSteps, MaxFineClock, MaxWakeDelay)

\* The Space key ('right') pressed while a note is within the good window
TapFine ==
  /\ gameState = "PLAYING"
  /\ clock >= gameStartTime
  /\ InTolerance(clock) # {}
  /\ HandleTap("right")

NextFine ==
  \/ SelectLevelFine
  \/ StartGameContinue
  \/ StartCallback
  \/ TickFine
  \/ SchedulerWake
  \/ TapFine

SpecFine == Init /\ [][NextFine]_vars

\* C10: of two hand-matching hits of a session (one difficulty), the one
\* with the smaller diffMs never has the smaller score, over the whole range
\* 0 <= diffMs < good window.
C10_ScoreMonotone ==
  \A a, b \in 1..Len(hitHistory) :
    (/\ ~hitHistory[a].isMiss
     /\ ~hitHistory[b].isMiss
     /\ Abs(hitHistory[a].offset) <= Abs(hitHistory[b].offset))
      => hitHistory[a].score >= hitHistory[b].score

\* C10 witness: two accepted hits on the two sides of a band boundary, the
\* farther one early, the nearer one late
C10_Witness ==
  /\ Len(hitHistory) = 2
  /\ ~hitHistory[1].isMiss
  /\ ~hitHistory[2].isMiss
  /\ \E k \in 2..3 :
       /\ hitHistory[1].offset = SCORING_WINDOWS(gameConfig.difficulty)[k] - 1
       /\ hitHistory[2].offset = -SCORING_WINDOWS(gameConfig.difficulty)[k]
  /\ hitHistory[1].score >= hitHistory[2].score

---------------------------------------------------------------------------
(* One session of the basic level played on the beat with the Space key: *)
(* every note from gameStartTime on is tapped when it sounds, and a tap may *)
(* bounce (further taps at the same instant) *)

SelectLevelCombo ==
  SelectLevelFrom({c \in Configs({LevelBasic44}) : c.difficulty = "MEDIUM"})

\* A note of the session sounds now
OnTheBeat ==
  \E i \in 1..Len(expectedHits) :
    expectedHits[i].time = clock /\ expectedHits[i].time >= gameStartTime

\* The clock moves on only when no sounded note of the session is untapped
TickCombo ==
  /\ \A i \in 1..Len(expectedHits) :
       (expectedHits[i].time >= gameStartTime /\ expectedHits[i].time <= clock)
         => expectedHits[i].processed
  /\ TickBy(CoarseSteps, MaxComboClock, MaxWakeDelay)

TapCombo ==
  /\ taps < MaxComboTaps
  /\ gameState = "PLAYING"
  /\ OnTheBeat
  /\ HandleTap("right")

NextCombo ==
  \/ SelectLevelCombo
  \/ StartGameContinue
  \/ StartCallback
  \/ TickCombo
  \/ SchedulerWake
  \/ TapCombo

SpecCombo == Init /\ [][NextCombo]_vars

\* The aggregator rule applied to the events of a history from position i on:
\* combo + 1 on a nonzero score, else 0; the total (in tenths) grows by
\* score * (1 + floor(newCombo / 10) * 0.1)
RECURSIVE ReplayFrom(_, _, _, _)
ReplayFrom(history, i, combo, total) ==
  IF i > Len(history) THEN total
  ELSE LET score == history[i].score
           newCombo == IF score # 0 THEN combo + 1 ELSE 0
       IN  ReplayFrom(history, i + 1, newCombo,
                      total + score * (10 + (newCombo \div 10)))

\* C6: replaying the recorded history in order through the aggregator rule
\* reproduces SessionStats.totalScore exactly, at every point of a session.
C6_ReplayReproducesTotal ==
  stats.totalScore = ReplayFrom(hitHistory, 1, 0, 0)

---------------------------------------------------------------------------
(* Claims about scheduler passes *)

\* A step in which a run of scheduler() got through its loops and re-armed
\* its timeout
PassStep == timerID' # 0 /\ timerID' # timerID

\* C11: after every scheduler pass that does not end the session, both
\* cursors are at or beyond clock + SCHEDULE_AHEAD_TIME, and the queued notes
\* have pairwise different times, all below the note cursor (nothing below
\* the horizon is left to emit and nothing was emitted twice).
C11_HorizonFilled ==
  [][PassStep
       => /\ gameState' = "PLAYING"
          /\ nextNoteTime' >= clock' + SCHEDULE_AHEAD_TIME
          /\ nextMetronomeTime' >= clock' + SCHEDULE_AHEAD_TIME
          /\ \A i \in 1..Len(expectedHits') :
               /\ expectedHits'[i].time < nextNoteTime'
               /\ \A k \in 1..Len(expectedHits') :
                    expectedHits'[i].time = expectedHits'[k].time => i = k]_vars

\* C11 witness: a pass that woke late has caught up: queued notes on both
\* sides of the clock, the cursors beyond the horizon, a wake pending
C11_Witness ==
  /\ gameState = "PLAYING"
  /\ timerID = clock + LOOKAHEAD
  /\ nextNoteTime >= clock + SCHEDULE_AHEAD_TIME
  /\ nextMetronomeTime >= clock + SCHEDULE_AHEAD_TIME
  /\ scheduled > Len(gameConfig.level.pattern)
  /\ \E i \in 1..(Len(expectedHits) - 1) :
       /\ expectedHits[i].time < clock - SCHEDULE_AHEAD_TIME
       /\ expectedHits[i + 1].time >= clock

\* Queue positions, after the step, of the notes the step created
Created ==
  {k \in 1..Len(expectedHits') :
     \A i \in 1..Len(expectedHits) : expectedHits[i].time # expectedHits'[k].time}

\* C12: with every wake at most SCHEDULE_AHEAD_TIME - LOOKAHEAD late, every
\* ExpectedHit is created unprocessed with a time at or after the clock time
\* of its creation, and every scheduleNote call of a pass leaves its note in
\* the queue (none is skipped), across count-in, play, pause and resume.
C12_NotesCreatedAhead ==
  [][/\ \A k \in Created :
          /\ expectedHits'[k].time >= clock'
          /\ ~expectedHits'[k].processed
     /\ (startTimers' = startTimers /\ scheduled' > scheduled)
          => Cardinality(Created) = scheduled' - scheduled]_vars

\* C12 witness: after a pause and a resume in play, the latest pass left a
\* note in the queue whose time is the clock time of that pass
C12_Witness ==
  /\ gameState = "PLAYING"
  /\ lastTap.phase = "PAUSED"
  /\ clock >= gameStartTime
  /\ timerID = clock + LOOKAHEAD
  /\ \E i \in 1..Len(expectedHits) : expectedHits[i].time = clock

\* The Pattern invariant of the specification: a non-empty list of notes in
\* ascending beat order, loopBeats positive and not below the largest beat
PatternInvariant(level) ==
  /\ level.pattern # <<>>
  /\ level.loopBeats > 0
  /\ \A i \in 1..(Len(level.pattern) - 1) :
       level.pattern[i].beat <= level.pattern[i + 1].beat
  /\ \A i \in 1..Len(level.pattern) : level.pattern[i].beat <= level.loopBeats

\* Every beat delta of the pattern is positive: strictly ascending beats and
\* a loop longer than the span from the first to the last beat
PositiveDeltas(level) ==
  /\ level.pattern # <<>>
  /\ \A i \in 1..(Len(level.pattern) - 1) :
       level.pattern[i].beat < level.pattern[i + 1].beat
  /\ level.loopBeats
       > level.pattern[Len(level.pattern)].beat - level.pattern[1].beat

\* The scheduled time of the first note of the session
FirstNoteTime ==
  loopStartTime
    + (gameConfig.level.pattern[1].beat * BeatDuration(gameConfig.bpm)) \div BEAT_UNIT

\* loopBeats x beatDuration
LoopDuration ==
  (gameConfig.level.loopBeats * BeatDuration(gameConfig.bpm)) \div BEAT_UNIT

\* The pattern index is back at 0 and the note cursor is the first note's time
\* plus one loop duration for each full pass through the pattern, in a session
\* whose cursors were set by the start callback of its configuration (no
\* other startGame call is in flight)
OnLoopGrid ==
  (/\ gameState \in {"PLAYING", "PAUSED", "RESULTS"}
   /\ pendingStarts = <<>>
   /\ startTimers = <<>>
   /\ currentBeatInPattern = 0)
    => nextNoteTime
         = FirstNoteTime
             + (scheduled \div Len(gameConfig.level.pattern)) * LoopDuration

---------------------------------------------------------------------------
(* One session of the basic level followed to its end and beyond: the player *)
(* taps on the last beat and on the results screen, then retries or quits *)

\* quitGame (Exit on the pause and results screens), and the effect's cleanup
QuitGame ==
  /\ gameState \in {"PAUSED", "RESULTS"}
  /\ gameState' = "IDLE"
  /\ gameConfig' = NoConfig
  /\ audio' = (IF audio = "none" THEN audio ELSE "suspended")
  /\ timerID' = 0
  /\ resumePending' = FALSE
  /\ pendingWakes' = Cleared
  /\ UNCHANGED <<stats, lastHit, clock, engineRefs, expectedHits, hitHistory,
                 pendingStarts, startTimers, scheduled, starts, taps,
                 judgedTaps, lastTap,
                 analysis, highScores>>

\* Retry on the results screen: startGame(gameConfig)
RetryGame ==
  /\ gameState = "RESULTS"
  /\ gameConfig # NoConfig
  /\ StartGameWithin(gameConfig, MaxSessions)
  /\ UNCHANGED <<gameState, gameConfig, stats, lastHit, clock, engineRefs,
                 timerID, expectedHits, hitHistory, startTimers, resumePending,
                 scheduled, taps, judgedTaps, lastTap,
                 analysis, highScores, pendingWakes>>

SelectLevelEnd ==
  SelectLevelFrom({c \in Configs({LevelBasic44}) : c.difficulty = "MEDIUM"})

TickEnd == TickBy(CoarseSteps, MaxEndClock, MaxWakeDelay)

\* The Space key from the last beat of the session on
TapEnd ==
  /\ taps < MaxEndTaps
  /\ gameConfig # NoConfig
  /\ gameState \in {"PLAYING", "RESULTS"}
  /\ clock >= gameStartTime + GAME_DURATION - BeatDuration(gameConfig.bpm)
  /\ HandleTap("right")

NextEnd ==
  \/ SelectLevelEnd
  \/ StartGameContinue
  \/ StartCallback
  \/ TickEnd
  \/ SchedulerWake
  \/ TapEnd
  \/ RetryGame
  \/ QuitGame

SpecEnd == Init /\ [][NextEnd]_vars

\* C14: a pass that observes elapsed >= GAME_DURATION moves the session to
\* RESULTS without re-arming the timeout, without advancing a cursor and
\* without creating an ExpectedHit; no pass that re-arms observes such an
\* elapsed time; and in RESULTS no wake is pending, no cursor moves and no
\* ExpectedHit is created.
C14_SessionEndHalts ==
  [][/\ (gameState = "PLAYING" /\ timerID # 0 /\ timerID' # timerID
           /\ clock - gameStartTime >= GAME_DURATION)
          => gameState' = "RESULTS"
     /\ PassStep => clock' - gameStartTime' < GAME_DURATION
     /\ (gameState \in {"PLAYING", "RESULTS"} /\ gameState' = "RESULTS")
          => /\ timerID' = 0
             /\ UNCHANGED <<expectedHits, nextNoteTime, nextMetronomeTime,
                            currentBeatInPattern, scheduled>>]_vars

\* C14 witness: the session ended in a pass that left both cursors below the
\* horizon, and a tap arrived on the results screen
C14_Witness ==
  /\ gameState = "RESULTS"
  /\ timerID = 0
  /\ clock - gameStartTime >= GAME_DURATION
  /\ nextNoteTime < clock + SCHEDULE_AHEAD_TIME
  /\ nextMetronomeTime < clock + SCHEDULE_AHEAD_TIME
  /\ lastTap.phase = "RESULTS"

\* The same session with the audio clock advancing and every due timer and
\* continuation eventually running; the player neither pauses nor quits
NextEndPlay ==
  \/ SelectLevelEnd
  \/ StartGameContinue
  \/ StartCallback
  \/ TickEnd
  \/ SchedulerWake
  \/ TapEnd
  \/ RetryGame

SpecEndFair ==
  /\ Init
  /\ [][NextEndPlay]_vars
  /\ WF_vars(StartGameContinue)
  /\ WF_vars(StartCallback)
  /\ WF_vars(TickEnd)
  /\ WF_vars(SchedulerWake)

\* A step in which the scheduler timeout fired in state PLAYING and the
\* session went on
WakeStep ==
  /\ gameState = "PLAYING"
  /\ gameState' = "PLAYING"
  /\ timerID # 0
  /\ clock' = clock
  /\ taps' = taps
  /\ startTimers' = startTimers
  /\ vars' # vars

\* C15: every pass that does not end the session leaves a wake pending,
\* LOOKAHEAD after the clock time of the pass, whether it emitted events or
\* not; and every PLAYING session eventually reaches RESULTS.
C15_SessionCompletes ==
  /\ [][WakeStep => timerID' = clock' + LOOKAHEAD]_vars
  /\ (gameState = "PLAYING") ~> (gameState = "RESULTS")

\* C15 witness: the session reached RESULTS at GAME_DURATION after
\* gameStartTime, after passes that emitted notes
C15_Witness ==
  /\ gameState = "RESULTS"
  /\ scheduled > 0
  /\ clock = gameStartTime + GAME_DURATION
  /\ starts = 1
  /\ pendingStarts = <<>>

\* C20: in state RESULTS no scheduler wake is pending, and no step that
\* stays in RESULTS (a tap, a timer callback, a Retry still awaiting the
\* audio context) changes SessionStats or the history.
C20_ResultsFrozen ==
  [][/\ gameState' = "RESULTS" => timerID' = 0
     /\ (gameState = "RESULTS" /\ gameState' = "RESULTS")
          => UNCHANGED <<stats, hitHistory>>]_vars

\* C20 witness: on the results screen, with a hit of the last beat in the
\* history handed to SessionStats, a tap arrived and Retry was pressed
C20_Witness ==
  /\ gameState = "RESULTS"
  /\ timerID = 0
  /\ hitHistory # <<>>
  /\ stats.history = hitHistory
  /\ stats.totalScore > 0
  /\ lastTap.phase = "RESULTS"
  /\ pendingStarts # <<>>

---------------------------------------------------------------------------
(* Claims about pause, resume and a suspended clock *)

\* C18: a tap delivered while the clock is suspended creates no HitEvent,
\* marks no ExpectedHit processed and changes no SessionStats field, also
\* after the state is back to PLAYING and before the clock has resumed.
C18_SuspendedTapIgnored ==
  [][(TapStep /\ audio = "suspended")
       => UNCHANGED <<hitHistory, stats, expectedHits>>]_vars

\* C19: in state PAUSED no scheduler wake is pending; a step from PAUSED
\* that stays in the session (a tap, the resume) leaves the cursors, the
\* pattern index, the queue, the history and SessionStats unchanged; and the
\* pass that follows the resume, like every pass, creates its first note at
\* the note cursor it found and moves the metronome cursor by whole beats,
\* so that no note or tick is emitted twice and none is dropped.
C19_PauseKeepsCursors ==
  [][/\ gameState' = "PAUSED" => timerID' = 0
     /\ (gameState = "PAUSED" /\ gameState' \in {"PAUSED", "PLAYING"})
          => UNCHANGED <<nextNoteTime, nextMetronomeTime, currentBeatInPattern,
                         expectedHits, hitHistory, stats>>
     /\ (startTimers' = startTimers /\ gameState' \in {"PLAYING", "PAUSED"})
          => /\ Created # {}
                  => \E k \in Created :
                       /\ expectedHits'[k].time = nextNoteTime
                       /\ \A m \in Created :
                            expectedHits'[m].time >= nextNoteTime
             /\ Created = {} => nextNoteTime' = nextNoteTime
             /\ nextMetronomeTime' >= nextMetronomeTime
             /\ (nextMetronomeTime' - nextMetronomeTime)
                  % BeatDuration(gameConfig.bpm) = 0]_vars

\* C19 witness: after a hit, a pause with a tap on the pause screen and a
\* resume, a pass has emitted the note beyond the clock
C19_Witness ==
  /\ gameState = "PLAYING"
  /\ lastTap.phase = "PAUSED"
  /\ ~resumePending
  /\ timerID = clock + LOOKAHEAD
  /\ hitHistory # <<>>
  /\ expectedHits # <<>>
  /\ expectedHits[Len(expectedHits)].time >= clock + LOOKAHEAD + LOOKAHEAD

---------------------------------------------------------------------------
(* The audio context suspended from outside the program *)

\* audioContext.state, read at line 256, is changed by the browser as well:
\* while the session plays, the running context becomes suspended
ClockInterrupted ==
  /\ gameState = "PLAYING"
  /\ audio = "running"
  /\ audio' = "suspended"
  /\ UNCHANGED <<gameState, gameConfig, stats, lastHit, clock, engineRefs,
                 timerID, expectedHits, hitHistory, pendingStarts, startTimers,
                 resumePending, scheduled, starts, taps, judgedTaps, lastTap,
                 analysis, highScores, pendingWakes>>

\* ... and the context the browser suspended runs again
ClockRestored ==
  /\ gameState = "PLAYING"
  /\ audio = "suspended"
  /\ ~resumePending
  /\ audio' = "running"
  /\ UNCHANGED <<gameState, gameConfig, stats, lastHit, clock, engineRefs,
                 timerID, expectedHits, hitHistory, pendingStarts, startTimers,
                 resumePending, scheduled, starts, taps, judgedTaps, lastTap,
                 analysis, highScores, pendingWakes>>

SelectLevelInterrupt ==
  SelectLevelFrom({[level |-> LevelBasic44, bpm |-> 120, difficulty |-> "MEDIUM"]})

TickInterrupt == TickBy(ClockSteps, MaxInterruptClock, MaxWakeDelay)

\* A session without pause, restart or quit whose clock the browser suspends
NextInterrupt ==
  \/ SelectLevelInterrupt
  \/ StartGameContinue
  \/ StartCallback
  \/ TickInterrupt
  \/ SchedulerWake
  \/ ClockInterrupted
  \/ ClockRestored

SpecInterrupt == Init /\ [][NextInterrupt]_vars

\* Timers fire, the running clock advances, a suspended context comes back
SpecInterruptFair ==
  /\ Init
  /\ [][NextInterrupt]_vars
  /\ WF_vars(StartGameContinue)
  /\ WF_vars(StartCallback)
  /\ WF_vars(TickInterrupt)
  /\ WF_vars(SchedulerWake)
  /\ WF_vars(ClockRestored)

\* The scheduler timeout fires and finds the context absent or suspended
SuspendedPassStep ==
  /\ timerID # 0
  /\ timerID' # timerID
  /\ audio # "running"
  /\ gameState' = gameState

\* C16: a scheduler pass that finds the clock source absent or suspended
\* does no work: both cursors, the pattern index, the queue and the session
\* state are unchanged, nothing is emitted and no new wake is armed.
C16_SuspendedPassIdle ==
  [][SuspendedPassStep
       => /\ timerID' = 0
          /\ UNCHANGED <<nextNoteTime, nextMetronomeTime, currentBeatInPattern,
                         expectedHits, scheduled, gameState, stats, hitHistory,
                         audio, clock>>]_vars

\* C16 witness: the session plays, notes were emitted, the context is
\* suspended and the wake that found it so has left no timeout behind
C16_Witness ==
  /\ gameState = "PLAYING"
  /\ audio = "suspended"
  /\ ~resumePending
  /\ timerID = 0
  /\ scheduled > 0
  /\ expectedHits # <<>>
  /\ nextNoteTime < clock + SCHEDULE_AHEAD_TIME + LOOKAHEAD + MaxWakeDelay

\* C17: when the clock is suspended while the session plays, then once it is
\* available again a scheduler wake is pending, without a pause or resume
\* by the user.
C17_SchedulingResumes ==
  (gameState = "PLAYING" /\ audio = "suspended" /\ ~resumePending)
    ~> (gameState # "PLAYING" \/ (audio = "running" /\ timerID # 0))

---------------------------------------------------------------------------
(* Sessions that follow one another: restart, retry, quit and select again *)

\* restartGame (Restart Level on the pause screen, key R while PAUSED):
\* suspend, then startGame(gameConfig) up to its await
RestartGameWithin(limit) ==
  /\ gameState = "PAUSED"
  /\ gameConfig # NoConfig
  /\ StartGameWithin(gameConfig, limit)
  /\ UNCHANGED <<gameState, gameConfig, stats, lastHit, clock, engineRefs,
                 timerID, expectedHits, hitHistory, startTimers, resumePending,
                 scheduled, taps, judgedTaps, lastTap,
                 analysis, highScores, pendingWakes>>

RestartGame == RestartGameWithin(MaxSessions)

SelectLevelRestart ==
  SelectLevelWithin({c \in Configs({LevelBasic44}) : c.difficulty = "MEDIUM"},
                    MaxSessions)

TickRestart == TickBy(CoarseSteps, MaxRestartClock, MaxWakeDelay)

\* A session with taps from its last beat on, paused and restarted, or
\* ended and retried, or quit and selected again
NextRestart ==
  \/ SelectLevelRestart
  \/ StartGameContinue
  \/ StartCallback
  \/ TickRestart
  \/ SchedulerWake
  \/ TapEnd
  \/ TogglePause
  \/ ResumeDone
  \/ RestartGame
  \/ RetryGame
  \/ QuitGame

SpecRestart == Init /\ [][NextRestart]_vars

\* The state becomes PLAYING at the end of a session start
SessionStartStep == gameState = "STARTING" /\ gameState' = "PLAYING"

\* C21: at the moment a session start (from level select, restart while
\* paused or retry from results) makes the state PLAYING, every SessionStats
\* counter is 0, the history and the expected-hit queue are empty, the
\* pattern index is 0 and gameStartTime is 8 beats after the first metronome
\* tick, which is 0.1 s after the clock time of the start callback.
C21_StartResetsEngine ==
  [][SessionStartStep
       => /\ stats' = EmptyStats
          /\ hitHistory' = <<>>
          /\ expectedHits' = <<>>
          /\ lastHit' = NoHit
          /\ currentBeatInPattern' = 0
          /\ scheduled' = 0
          /\ nextMetronomeTime' = clock + AUDIO_START_OFFSET
          /\ loopStartTime' = nextMetronomeTime'
          /\ gameStartTime'
               = nextMetronomeTime'
                   + COUNT_IN_BEATS * BeatDuration(Head(startTimers).config.bpm)]_vars

\* C21 witness: a second session has just become PLAYING after a session in
\* which a tap was matched with a note
C21_Witness ==
  /\ gameState = "PLAYING"
  /\ starts = 2
  /\ lastTap.phase = "judged"
  /\ lastTap.selected > 0
  /\ stats = EmptyStats
  /\ hitHistory = <<>>
  /\ nextMetronomeTime = clock + AUDIO_START_OFFSET
  /\ gameStartTime > clock

---------------------------------------------------------------------------
(* Claims about SessionStats *)

\* C22: on every judged tap the combo becomes the previous combo + 1 when
\* the tap's score is nonzero and 0 otherwise, and maxCombo becomes the
\* larger of the previous maxCombo and the new combo; in every state
\* 0 <= combo <= maxCombo, and maxCombo decreases only when a session start
\* resets SessionStats.
C22_ComboRule ==
  [][/\ JudgedTapStep
          => /\ stats'.combo
                  = (IF lastHit'.score # 0 THEN stats.combo + 1 ELSE 0)
             /\ stats'.maxCombo = Max(stats.maxCombo, stats'.combo)
     /\ 0 <= stats'.combo
     /\ stats'.combo <= stats'.maxCombo
     /\ gameState' # "STARTING" => stats'.maxCombo >= stats.maxCombo]_vars

\* C22 witness: a hit raised the combo and maxCombo, then a tap of score 0
\* reset the combo
C22_Witness ==
  /\ gameState = "PLAYING"
  /\ judgedTaps = 2
  /\ lastHit.score = 0
  /\ stats.combo = 0
  /\ stats.maxCombo = 1
  /\ stats.misses = 1

\* perfects + greats + goods + misses
TapCount(st) == st.perfects + st.greats + st.goods + st.misses

\* C23: the tap count perfects + greats + goods + misses is the number of
\* judged taps of the session, and each judged tap (a stray or wrong-hand
\* tap with score 0 included) takes averageAccuracy x tap count from the sum
\* of the scores before it to that sum plus its own score; a session start
\* sets both to 0.  Hence averageAccuracy x judged taps is the sum of the
\* scores of all judged taps.
C23_AccuracyIsMean ==
  [][/\ TapCount(stats') = judgedTaps'
     /\ JudgedTapStep
          => /\ TapCount(stats') = TapCount(stats) + 1
             /\ stats'.averageAccuracy[1] * TapCount(stats')
                   * stats.averageAccuracy[2]
                  = (stats.averageAccuracy[1] * TapCount(stats)
                       + lastHit'.score * stats.averageAccuracy[2])
                      * stats'.averageAccuracy[2]
     /\ judgedTaps' = 0 => stats'.averageAccuracy = <<0, 1>>
     /\ stats'.averageAccuracy[2] > 0]_vars

\* C23 witness: a perfect hit and a stray tap, mean 50
C23_Witness ==
  /\ judgedTaps = 2
  /\ Len(hitHistory) = 1
  /\ hitHistory[1].score = 100
  /\ lastTap.selected = 0
  /\ lastHit.score = 0
  /\ stats.averageAccuracy = <<50, 1>>

---------------------------------------------------------------------------
(* Claims about the expected-hit queue *)

\* No entry of the queue is at or before now - 0.5 s
Fresh(queue, now) == \A i \in 1..Len(queue) : queue[i].time > now - RETENTION

\* C24: after every scheduleNote call and after every judged tap, the
\* expected-hit queue holds no entry whose scheduled time is at or before
\* clock - 0.5 s.
C24_QueueFreshAfterNoteAndTap ==
  [][/\ (startTimers' = startTimers /\ scheduled' > scheduled)
          => Fresh(expectedHits', clock')
     /\ JudgedTapStep => Fresh(expectedHits', clock')]_vars

\* The number of consecutive note instances, from pattern index idx on and
\* around the loop, whose scheduled times lie less than span apart from the
\* first, with the time steps of the scheduler (lines 301-309)
RECURSIVE SpanCount(_, _, _, _, _)
SpanCount(config, idx, offset, span, n) ==
  IF offset < span
  THEN SpanCount(config, (idx + 1) % Len(config.level.pattern),
                 offset + (BeatDiff(config.level, idx) * BeatDuration(config.bpm))
                            \div BEAT_UNIT,
                 span, n + 1)
  ELSE n

\* The largest number of note instances within retention + horizon
MaxInSpan(config) ==
  LET counts == {SpanCount(config, i - 1, 0, RETENTION + SCHEDULE_AHEAD_TIME, 0) :
                   i \in 1..Len(config.level.pattern)}
  IN  CHOOSE c \in counts : \A d \in counts : d <= c

\* C25: in every state of a session the size of the expected-hit queue is
\* at most the largest number of note instances of the pattern whose
\* scheduled times fit in a span of retention (0.5 s) plus horizon (0.1 s),
\* however many loops were played and however late the scheduler woke.
C25_QueueBounded ==
  gameConfig # NoConfig => Len(expectedHits) <= MaxInSpan(gameConfig)

\* C25 witness: in the third loop or later of a pattern with notes a quarter
\* beat apart the queue is as long as the bound
C25_Witness ==
  /\ gameState = "PLAYING"
  /\ gameConfig # NoConfig
  /\ scheduled > 2 * Len(gameConfig.level.pattern)
  /\ Len(expectedHits) >= 3
  /\ Len(expectedHits) = MaxInSpan(gameConfig)
  /\ nextNoteTime > loopStartTime + 2 * LoopDuration

---------------------------------------------------------------------------
(* The summary of endGame as a function of the history: a session of the   *)
(* five-stroke level (HARD, 150 bpm) at the wake that ends it, with every   *)
(* history of up to MaxHistory events of five kinds, one event per loop     *)

AnalysisConfig == [level |-> LevelFiveStroke, bpm |-> 150, difficulty |-> "HARD"]

\* The kinds of HitEvent: the note's beat and hand, the tapping hand and the
\* offset in ms.  With the HARD window of 100 ms and notes 100 ms apart the
\* tap of each kind selects the note named here.
EventKinds ==
  {[beat |-> 0, expectedHand |-> "right", hand |-> "right", offset |-> 0],
   [beat |-> 2, expectedHand |-> "left", hand |-> "left", offset |-> -20],
   [beat |-> 4, expectedHand |-> "right", hand |-> "right", offset |-> 30],
   [beat |-> 8, expectedHand |-> "left", hand |-> "right", offset |-> -40],
   [beat |-> 2, expectedHand |-> "left", hand |-> "right", offset |-> 25]}

\* The HitEvent that handleTap pushes for a tap of kind k in loop number loop
EventOf(k, loop) ==
  LET wrong == k.expectedHand # k.hand
      quarter == BeatDuration(AnalysisConfig.bpm) \div BEAT_UNIT
  IN  [offset |-> k.offset, isMiss |-> wrong, beat |-> k.beat,
       timestamp |-> (loop - 1) * AnalysisConfig.level.loopBeats * quarter
                       + k.beat * quarter + k.offset,
       score |-> IF wrong THEN 0
                 ELSE HitScore(Abs(k.offset), SCORING_WINDOWS(AnalysisConfig.difficulty)),
       hand |-> k.hand, expectedHand |-> k.expectedHand]

\* SessionStats after the taps of a history
RECURSIVE StatsOf(_, _)
StatsOf(history, n) ==
  IF n = 0 THEN EmptyStats ELSE UpdateStats(StatsOf(history, n - 1), history[n].score)

Histories ==
  UNION {[1..n -> EventKinds] : n \in 0..MaxHistory}

\* The state of the session when the clock reaches gameStartTime +
\* GAME_DURATION and the wake is due: 20 loops and the notes up to beat 3 of
\* the 21st are emitted, the last five are in the queue
InitAnalysis ==
  \E kinds \in Histories :
    LET history == [i \in 1..Len(kinds) |-> EventOf(kinds[i], i)]
        quarter == BeatDuration(AnalysisConfig.bpm) \div BEAT_UNIT
        audioStartTime == START_DELAY + AUDIO_START_OFFSET
        start == audioStartTime + COUNT_IN_BEATS * BeatDuration(AnalysisConfig.bpm)
        now == start + GAME_DURATION
        lastLoop == audioStartTime + 20 * AnalysisConfig.level.loopBeats * quarter
    IN  /\ gameState = "PLAYING"
        /\ gameConfig = AnalysisConfig
        /\ stats = StatsOf(history, Len(history))
        /\ lastHit = (IF history = <<>> THEN NoHit
                      ELSE [score |-> history[Len(history)].score,
                            label |-> IF history[Len(history)].isMiss
                                      THEN "Wrong Drum!"
                                      ELSE HitLabel(Abs(history[Len(history)].offset),
                                                    SCORING_WINDOWS(AnalysisConfig.difficulty))])
        /\ audio = "running"
        /\ clock = now
        /\ nextNoteTime = lastLoop + AnalysisConfig.level.loopBeats * quarter
        /\ nextMetronomeTime = now + BeatDuration(AnalysisConfig.bpm)
        /\ currentBeatInPattern = 0
        /\ timerID = now
        /\ gameStartTime = start
        /\ expectedHits = [i \in 1..5 |->
                             [time |-> lastLoop + AnalysisConfig.level.pattern[i + 5].beat * quarter,
                              beat |-> AnalysisConfig.level.pattern[i + 5].beat,
                              hand |-> AnalysisConfig.level.pattern[i + 5].hand,
                              processed |-> FALSE]]
        /\ hitHistory = history
        /\ loopStartTime = audioStartTime
        /\ pendingStarts = <<>>
        /\ startTimers = <<>>
        /\ resumePending = FALSE
        /\ scheduled = 21 * Len(AnalysisConfig.level.pattern)
        /\ starts = 1
        /\ taps = Len(history)
        /\ judgedTaps = Len(history)
        /\ lastTap = NoTap
        /\ analysis = NoAnalysis
        /\ highScores = NoScores
        /\ pendingWakes = 1

\* The wake that ends the session, then Exit on the results screen
NextAnalysis ==
  \/ SchedulerWake
  \/ QuitGame

SpecAnalysis == InitAnalysis /\ [][NextAnalysis]_vars

\* The events of the history that are no misses
Hits(history) == SelectSeq(history, LAMBDA h : ~h.isMiss)

\* C26: at session end earlyRate is the percentage of the non-miss hits of
\* the history whose offset is below -15 ms, and lateRate that of the
\* non-miss hits whose offset is above +15 ms; misses count neither in the
\* numerators nor in the denominator.
C26_BiasOverHits ==
  gameState = "RESULTS"
    => /\ analysis.earlyRate
            = Rate(Len(SelectSeq(Hits(hitHistory), IsEarly)), Len(Hits(hitHistory)))
       /\ analysis.lateRate
            = Rate(Len(SelectSeq(Hits(hitHistory), IsLate)), Len(Hits(hitHistory)))

\* C27: at session end every missed HitEvent of the history is counted in
\* downbeatMisses when its beat is a whole beat and in offbeatMisses
\* otherwise, no other event is counted, and offbeatMisses + downbeatMisses
\* is the misses count of the summary.
C27_MissesPartitioned ==
  gameState = "RESULTS"
    => LET missed == {i \in 1..Len(hitHistory) : hitHistory[i].isMiss}
           whole == {i \in missed : hitHistory[i].beat % BEAT_UNIT = 0}
       IN  /\ analysis.downbeatMisses = Cardinality(whole)
           /\ analysis.offbeatMisses = Cardinality(missed \ whole)
           /\ analysis.offbeatMisses + analysis.downbeatMisses = analysis.misses
           /\ analysis.misses = Cardinality(missed)

\* C27 witness: a summary with misses on and off the beat, and a hit on an
\* offbeat
C27_Witness ==
  /\ gameState = "RESULTS"
  /\ analysis.downbeatMisses = 2
  /\ analysis.offbeatMisses = 1
  /\ analysis.misses = 3
  /\ \E i \in 1..Len(hitHistory) :
       ~hitHistory[i].isMiss /\ hitHistory[i].beat % BEAT_UNIT # 0

\* C28: the trend is "stable" when the history has 4 events or fewer;
\* otherwise, with the history split at floor(n/2), it is "degrading" iff
\* the mean absolute offset of the second half exceeds 1.2 x that of the
\* first, "improving" iff it is below 0.8 x that of the first, and "stable"
\* in every other case.
C28_TrendRule ==
  gameState = "RESULTS"
    => LET n == Len(hitHistory)
           mid == n \div 2
           firstSum == SumAbsOffset(SubSeq(hitHistory, 1, mid))
           secondSum == SumAbsOffset(SubSeq(hitHistory, mid + 1, n))
           \* secondSum / (n - mid) against 12/10 and 8/10 of firstSum / mid
           above == 10 * secondSum * mid > 12 * firstSum * (n - mid)
           below == 10 * secondSum * mid < 8 * firstSum * (n - mid)
       IN  /\ analysis.trend \in {"improving", "degrading", "stable"}
           /\ n <= 4 => analysis.trend = "stable"
           /\ n > 4
                => /\ (analysis.trend = "degrading") <=> above
                   /\ (analysis.trend = "improving") <=> below
                   /\ (analysis.trend = "stable") <=> (~above /\ ~below)

\* C28 witness: five events whose second half (three events, mean 30) has
\* exactly 1.2 x the mean absolute offset of the first half (two events,
\* mean 25), trend "stable"
C28_Witness ==
  /\ gameState = "RESULTS"
  /\ Len(hitHistory) = 5
  /\ SumAbsOffset(SubSeq(hitHistory, 1, 2)) = 50
  /\ SumAbsOffset(SubSeq(hitHistory, 3, 5)) = 90
  /\ analysis.trend = "stable"

---------------------------------------------------------------------------
(* Best scores over sessions that are retried: the basic level (EASY, 150   *)
(* bpm); the player hits nine notes on the beat and the tenth on the beat   *)
(* or 50 ms late, and may leave out the first note and tap between the      *)
(* first two notes instead                                                  *)

SelectLevelScores ==
  SelectLevelFrom({[level |-> LevelBasic44, bpm |-> 150, difficulty |-> "EASY"]})

\* An unprocessed note of the session whose time was d ms ago
NoteDue(d) ==
  \E i \in 1..Len(expectedHits) :
    /\ ~expectedHits[i].processed
    /\ expectedHits[i].time >= gameStartTime
    /\ expectedHits[i].time = clock - d

\* Half-way between the first two notes: no note is within the EASY window
BetweenFirstNotes ==
  clock = gameStartTime + BeatDuration(gameConfig.bpm) \div 2

TapScores ==
  /\ gameState = "PLAYING"
  /\ gameConfig # NoConfig
  /\ clock >= gameStartTime
  /\ \/ Len(hitHistory) < 10 /\ NoteDue(0)
     \/ Len(hitHistory) = 9 /\ NoteDue(50)
     \/ judgedTaps = 0 /\ BetweenFirstNotes
  /\ HandleTap("right")

\* The clock moves on when the player has no tap to make now: the first
\* note may be left out, the tenth hit may wait for 50 ms
TickScores ==
  /\ (gameState = "PLAYING" /\ clock >= gameStartTime)
       => /\ (Len(hitHistory) < 9 /\ clock > gameStartTime) => ~NoteDue(0)
          /\ Len(hitHistory) = 9 => ~NoteDue(50)
  /\ TickBy(ClockSteps, MaxScoreClock, LOOKAHEAD)

NextScores ==
  \/ SelectLevelScores
  \/ StartGameContinue
  \/ StartCallback
  \/ TickScores
  \/ SchedulerWake
  \/ TapScores
  \/ RetryGame

SpecScores == Init /\ [][NextScores]_vars

\* C29: the stored entry of (levelId, difficulty) is rewritten at session
\* end only with a score strictly greater than the score stored before (or
\* when none was stored), and the entries of other keys stay as they are.
C29_BestScoreOnlyRaised ==
  [][highScores' # highScores
       => LET key == <<gameConfig.level.id, gameConfig.difficulty>>
          IN  /\ DOMAIN highScores' = DOMAIN highScores \cup {key}
              /\ \A k \in DOMAIN highScores \ {key} : highScores'[k] = highScores[k]
              /\ key \in DOMAIN highScores
                   => highScores'[key].score > highScores[key].score]_vars

---------------------------------------------------------------------------
(* The shipped levels *)

\* The levels of LEVELS that the model holds: basic-4-4, five-stroke, cascara
ShippedLevels == Levels \cup {LevelCascara}

\* C30: every shipped level satisfies the Pattern invariant (notes list
\* non-empty, beats ascending and >= 0, loopBeats > 0 and >= the largest
\* beat), and a session of a shipped level never takes the guard of line
\* 307: each pass through the pattern spans loopBeats beats.
C30_ShippedLevelsWellFormed ==
  (gameConfig # NoConfig /\ gameConfig.level \in ShippedLevels)
    => /\ PatternInvariant(gameConfig.level)
       /\ \A i \in 1..Len(gameConfig.level.pattern) :
            gameConfig.level.pattern[i].beat >= 0
       /\ OnLoopGrid

---------------------------------------------------------------------------
(* The metronome *)

\* C31: the metronome ticks of a session are dispatched at
\* audioStartTime + k x beatDuration for k = 0, 1, 2, ... in order, none
\* skipped or repeated: every pass dispatches the ticks from the cursor on,
\* one beat apart, and leaves the cursor one beat after the last one; the
\* first pass starts at audioStartTime; no other step moves the cursor, so
\* nextMetronomeTime - audioStartTime is a whole number of beats whatever the
\* wakes and pauses.
C31_MetronomeOnGrid ==
  [][/\ PassStep
          => LET beatDuration == BeatDuration(gameConfig.bpm)
                 from == IF startTimers' # startTimers
                         THEN loopStartTime' ELSE nextMetronomeTime
                 kicks == MetronomeKicks(from, clock, beatDuration)
             IN  /\ startTimers' # startTimers => from = clock + AUDIO_START_OFFSET
                 /\ \A k \in 1..Len(kicks) : kicks[k] = from + (k - 1) * beatDuration
                 /\ nextMetronomeTime' = from + Len(kicks) * beatDuration
     /\ (~PassStep /\ startTimers' = startTimers)
          => nextMetronomeTime' = nextMetronomeTime
     /\ (gameState' \in {"PLAYING", "PAUSED", "RESULTS"} /\ gameConfig' # NoConfig)
          => LET beatDuration == BeatDuration(gameConfig'.bpm)
             IN  /\ nextMetronomeTime' >= loopStartTime'
                 /\ (nextMetronomeTime' - loopStartTime') % beatDuration = 0]_vars

\* C31 witness: in a second session the metronome cursor is several beats
\* after audioStartTime with a wake pending
C31_Witness ==
  /\ gameState = "PLAYING"
  /\ starts = 2
  /\ timerID # 0
  /\ nextMetronomeTime >= loopStartTime + 3 * BeatDuration(gameConfig.bpm)
  /\ (nextMetronomeTime - loopStartTime) % BeatDuration(gameConfig.bpm) = 0

---------------------------------------------------------------------------
(* The order of the queue *)

\* C32: in every state the entries of the expected-hit queue are in strictly
\* increasing order of their times (so no note instance is queued twice),
\* and an entry that stays in the queue over a step keeps its time, beat and
\* hand and its place before the entries behind it.
C32_QueueTimeOrdered ==
  [][/\ \A i \in 1..(Len(expectedHits') - 1) :
          expectedHits'[i].time < expectedHits'[i + 1].time
     /\ \A i \in 1..Len(expectedHits) : \A k \in 1..Len(expectedHits') :
          expectedHits'[k].time = expectedHits[i].time
            => /\ expectedHits'[k].beat = expectedHits[i].beat
               /\ expectedHits'[k].hand = expectedHits[i].hand
               /\ expectedHits[i].processed => expectedHits'[k].processed]_vars

\* C32 witness: three notes are queued, the first one was judged by a tap
\* and a later pass added the last one
C32_Witness ==
  /\ gameState = "PLAYING"
  /\ Len(expectedHits) >= 3
  /\ expectedHits[1].processed
  /\ lastTap.phase = "judged"
  /\ expectedHits[Len(expectedHits)].time > lastTap.time + SCHEDULE_AHEAD_TIME

---------------------------------------------------------------------------
(* The events of the history *)

\* C33: every HitEvent of the history has |offset| strictly below the good
\* window of the session's difficulty, a score that is 0 or in 40..100,
\* isMiss exactly when the score is 0, a tapped hand that is 'left' or
\* 'right', and a timestamp that is not negative.
C33_HitEventWellFormed ==
  gameConfig # NoConfig
    => \A i \in 1..Len(hitHistory) :
         LET h == hitHistory[i]
         IN  /\ Abs(h.offset) < SCORING_WINDOWS(gameConfig.difficulty)[4]
             /\ h.score = 0 \/ h.score \in 40..100
             /\ h.isMiss <=> h.score = 0
             /\ h.hand \in {"left", "right"}
             /\ h.timestamp >= 0

\* C33 witness: the history holds a wrong-hand miss and a hit at the largest
\* offset of the clock grid below the good window
C33_Witness ==
  /\ gameConfig # NoConfig
  /\ Len(hitHistory) = 2
  /\ \E i \in 1..2 : hitHistory[i].isMiss /\ hitHistory[i].score = 0
  /\ \E i \in 1..2 :
       /\ ~hitHistory[i].isMiss
       /\ Abs(hitHistory[i].offset)
            = SCORING_WINDOWS(gameConfig.difficulty)[4] - 50
       /\ hitHistory[i].score \in 40..69

---------------------------------------------------------------------------
(* Taps at the end of the play duration *)

\* C34: no tap is judged once the play duration has elapsed: every HitEvent
\* has a timestamp strictly below GAME_DURATION, and a handleTap call at a
\* clock time at or after gameStartTime + GAME_DURATION changes neither
\* SessionStats nor the history, also when the wake that ends the session
\* has not run yet.
C34_NoTapAfterDuration ==
  [][/\ \A i \in 1..Len(hitHistory') : hitHistory'[i].timestamp < GAME_DURATION
     /\ (TapStep /\ clock >= gameStartTime + GAME_DURATION)
          => /\ stats' = stats
             /\ hitHistory' = hitHistory]_vars

---------------------------------------------------------------------------
(* The summary against the session statistics *)

\* C35: at session end the summary handed to the commentary agrees with the
\* finalized SessionStats: the same misses, the same perfects and the same
\* averageAccuracy, for every tap sequence.
C35_SummaryAgreesWithStats ==
  gameState = "RESULTS"
    => /\ analysis.misses = stats.misses
       /\ analysis.perfects = stats.perfects
       /\ analysis.averageAccuracy = stats.averageAccuracy

---------------------------------------------------------------------------
(* The candidate a tap is scored against *)

\* C36: when at least one unprocessed hit within the good window of a judged
\* tap accepts the tapped hand (equal hand or 'any'), the tap is scored
\* against the nearest such hit, the earlier-queued one of two at the same
\* distance; the result is no wrong-hand miss and no hit that does not accept
\* the hand is marked processed.  A wrong-hand miss is produced only when no
\* unprocessed hit in the window accepts the hand.
C36_NearestMatchScored ==
  [][JudgedTapStep
       => LET cands == InTolerance(clock)
              match == {i \in cands : HandOk(i, lastTap'.hand)}
              sel == lastTap'.selected
              Dist(i) == Abs(expectedHits[i].time - clock)
          IN  /\ match # {}
                   => /\ sel \in match
                      /\ \A m \in match \ {sel} :
                           Dist(sel) < Dist(m) \/ (Dist(sel) = Dist(m) /\ sel < m)
                      /\ lastHit'.label # "Wrong Drum!"
                      /\ lastHit'.score
                           = HitScore(Dist(sel), SCORING_WINDOWS(gameConfig.difficulty))
                      /\ ~hitHistory'[Len(hitHistory')].isMiss
                      /\ \A i \in cands \ match : ~expectedHits'[i].processed
              /\ lastHit'.label = "Wrong Drum!" => (match = {} /\ cands # {})]_vars

\* C36 witness: the tap was scored against the earlier-queued one of two
\* hits that accept its hand at the same distance, while an unprocessed hit
\* of the other hand is within the good window as well
C36_Witness ==
  /\ lastTap.phase = "judged"
  /\ lastTap.selected # 0
  /\ clock = lastTap.time
  /\ lastHit.score > 0
  /\ \E m \in InTolerance(clock) :
       /\ m > lastTap.selected
       /\ HandOk(m, lastTap.hand)
       /\ Abs(expectedHits[m].time - clock)
            = Abs(expectedHits[lastTap.selected].time - clock)
  /\ \E j \in InTolerance(clock) : ~HandOk(j, lastTap.hand)

---------------------------------------------------------------------------
(* What changes the session statistics *)

\* The counters of SessionStats
Counters(st) ==
  <<st.totalScore, st.combo, st.maxCombo, st.perfects, st.greats, st.goods,
    st.misses, st.averageAccuracy>>

\* Queue positions of the unprocessed hits that the step drops from the queue
Expired ==
  {i \in 1..Len(expectedHits) :
     /\ ~expectedHits[i].processed
     /\ \A k \in 1..Len(expectedHits') :
          expectedHits'[k].time # expectedHits[i].time}

\* The step is startGame's reset of the session data
StartResetStep == Len(pendingStarts') < Len(pendingStarts)

\* C37: the counters of SessionStats and the history change only in a step
\* that is a judged tap or the reset of a session start.  A step that drops
\* an unprocessed hit from the queue by age leaves the counters (misses and
\* combo among them) and the history as they are, and so does every
\* scheduler pass; the pass that ends the session only copies the history
\* into the statistics.
C37_StatsChangeOnlyByTapOrStart ==
  [][/\ (Counters(stats') # Counters(stats) \/ hitHistory' # hitHistory)
          => (JudgedTapStep \/ StartResetStep)
     /\ (Expired # {} /\ ~StartResetStep)
          => /\ Counters(stats') = Counters(stats)
             /\ hitHistory' = hitHistory
     /\ stats'.history # stats.history
          => (stats'.history = hitHistory \/ StartResetStep)]_vars

\* C37 witness: after a hit built a combo of 1, a pass dropped the
\* unprocessed hits that had aged out; the combo is still 1, no miss is
\* recorded and the history holds the one hit
C37_Witness ==
  /\ gameState = "PLAYING"
  /\ lastTap.phase = "judged"
  /\ clock > lastTap.time
  /\ timerID = clock + LOOKAHEAD
  /\ stats.combo = 1
  /\ stats.misses = 0
  /\ Len(hitHistory) = 1
  /\ \A i \in 1..Len(expectedHits) : expectedHits[i].time >= lastTap.time
  /\ scheduled > Len(expectedHits) + 1

---------------------------------------------------------------------------
(* The four tap counters *)

\* The HitEvent has a nonzero score
IsScored(h) == h.score > 0

\* C38: every judged tap adds one to exactly one of perfects, greats, goods
\* and misses and leaves the other three: perfects for a score of 90 or
\* more, greats for 70..89, goods for 11..69, misses for 10 or less.  In
\* every state the four counters add up to the number of taps judged since
\* the session start, and misses is the number of those taps that scored 0
\* (the judged taps that are no scored HitEvent of the history).
C38_OneCounterPerTap ==
  [][/\ JudgedTapStep
          => LET score == lastHit'.score
                 Inc(b) == IF b THEN 1 ELSE 0
             IN  /\ stats'.perfects = stats.perfects + Inc(score >= 90)
                 /\ stats'.greats = stats.greats + Inc(score \in 70..89)
                 /\ stats'.goods = stats.goods + Inc(score \in 11..69)
                 /\ stats'.misses = stats.misses + Inc(score <= 10)
                 /\ Inc(score >= 90) + Inc(score \in 70..89)
                      + Inc(score \in 11..69) + Inc(score <= 10) = 1
     /\ stats'.perfects + stats'.greats + stats'.goods + stats'.misses
          = judgedTaps'
     /\ stats'.misses = judgedTaps' - Len(SelectSeq(hitHistory', IsScored))]_vars

\* C38 witness: a hit in the great band and a wrong-hand miss were judged
C38_Witness ==
  /\ lastTap.phase = "judged"
  /\ judgedTaps = 2
  /\ stats.greats = 1
  /\ stats.misses = 1
  /\ stats.perfects = 0
  /\ stats.goods = 0
  /\ Len(hitHistory) = 2
  /\ \E i \in 1..2 : hitHistory[i].score \in 70..89
  /\ \E i \in 1..2 : hitHistory[i].isMiss

---------------------------------------------------------------------------
(* The pending scheduler timeouts *)

\* C39: at most one scheduler timeout is pending at any time, the one that
\* timerID names, and none is pending in the states IDLE, STARTING, PAUSED
\* and RESULTS, across passes, pause and resume (a resume whose completion
\* comes after a further pause included), restart, retry, quit and session
\* end.
C39_OneWakePending ==
  /\ pendingWakes \in {0, 1}
  /\ pendingWakes = 1 <=> timerID # 0
  /\ gameState \in {"IDLE", "STARTING", "PAUSED", "RESULTS"}
       => (pendingWakes = 0 /\ timerID = 0)

\* C39 witness: the second session, started after a pause, is in play with
\* one timeout pending
C39_Witness ==
  /\ gameState = "PLAYING"
  /\ starts = 2
  /\ clock > gameStartTime
  /\ pendingWakes = 1
  /\ timerID = clock + LOOKAHEAD
  /\ stats.history = <<>>

---------------------------------------------------------------------------
(* Restart pressed more than once while the first startGame call waits for *)
(* the audio context *)

SelectLevelTrigger ==
  SelectLevelFrom({c \in Configs({LevelBasic44}) : c.difficulty = "MEDIUM"})

\* Restart Level (or key R) on the pause screen, up to MaxTriggers startGame
\* calls in all
RestartTrigger == RestartGameWithin(MaxTriggers)

TickTrigger == TickBy(CoarseSteps, MaxTriggerClock, MaxWakeDelay)

NextTrigger ==
  \/ SelectLevelTrigger
  \/ StartGameContinue
  \/ StartCallback
  \/ TickTrigger
  \/ SchedulerWake
  \/ TogglePause
  \/ ResumeDone
  \/ RestartTrigger

SpecTrigger == Init /\ [][NextTrigger]_vars

\* A step in which a 1000 ms callback of startGame runs
StartCallbackStep == Len(startTimers') < Len(startTimers)

\* C40: the delayed start callback of startGame fires only while the state
\* is STARTING, so the cursors, the pattern index and gameStartTime are
\* assigned by it in no step that begins in PLAYING or PAUSED, also when
\* restart is triggered more than once before the state has left PAUSED.
C40_StartCallbackOnlyInStarting ==
  [][StartCallbackStep => gameState = "STARTING"]_vars

============================================================================
